---- MODULE Spec2Model ----
(***************************************************************************)
(* Flight-price-estimation: the serving API (src/src/app/api.py), the      *)
(* model registry it loads from, and the promotion script                  *)
(* (src/scripts/promote_model.py) that reassigns registry aliases and      *)
(* asks the running service to reload.                                     *)
(*                                                                         *)
(* The service is one asyncio event loop.  Its handlers are `async def`    *)
(* functions without any await, so a handler that has started runs to its  *)
(* end before another handler starts; the handler steps below are taken    *)
(* while the handler holds the loop (pc # "idle").  Promotion scripts are  *)
(* separate processes: their registry calls interleave freely with the two *)
(* registry reads of a model load.                                         *)
(***************************************************************************)
EXTENDS Integers, Sequences, FiniteSets, TLC

\* ------------------------------------------------------------------ bounds
MaxDetections == 2      \* calls of detect_drift on one detector
MaxValue == 1           \* largest value of a numerical feature
MaxWeight == 1          \* largest ensemble weight
MaxPrediction == 1      \* largest price a sub-model predicts
MaxMetric == 3          \* largest value of a recorded metric
MaxRequests == 2        \* HTTP requests the service accepts in one run

\* --------------------------------------------------------------- constants
NONE == "None"                          \* Python None in a string-valued slot
Versions == {"1", "2"}                  \* model versions the registry holds
LatestVersion == "2"                    \* what models:/<name>/latest resolves to
RequestedVersions == Versions \cup {"3"}  \* "3" is not in the registry
AliasNames == {"production", "staging"}
Procs == {"p1", "p2"}                   \* promotion script processes, each run once
ServingProcs == {"p1"}                  \* the one that runs next to the full API
reload_app == TRUE                      \* --reload-app: store_true with default=True
MODEL_ALIAS == "production"             \* os.getenv('MODEL_ALIAS', 'production')
ModelName == "FlightPricePredictor"
PlaceholderPrice == 5000                \* predicted_price = 5000.0
DbFaults == {"none", "get_session", "add", "commit", "close"}

\* The fields of FlightFeatures, all declared with Field(...), that is
\* required; the key a request body gives a field, its alias when it has one;
\* and the declared types
FieldNames ==
    {"airline", "source_city", "destination_city", "departure_time",
     "arrival_time", "stops", "flight_class", "duration", "days_left"}
FieldAlias(field) == IF field = "flight_class" THEN "class" ELSE field
FieldType(field) ==
    IF field = "duration" THEN "float"
    ELSE IF field = "days_left" THEN "int"
    ELSE "str"

\* The JSON values of a request body, by kind: a string that is not a
\* number, a string of digits, a whole number, a number with a fractional
\* part, and null
ValueKinds == {"text", "digits", "integer", "decimal", "null"}

\* The body of the example of FlightFeatures
ExampleBody ==
    [key \in { FieldAlias(field) : field \in FieldNames } |->
       IF key = "duration" THEN "decimal"
       ELSE IF key = "days_left" THEN "integer"
       ELSE "text"]

WithoutKey(body, key) == [k \in DOMAIN body \ {key} |-> body[k]]

\* The request bodies sent to /predict, as the kinds of the values under
\* their keys: the example; the example with flight_class under its own
\* name and with days_left as a string of digits; the example without
\* days_left; the body of test_predict_invalid_data; the empty object; and
\* the example with a value of another kind under one key
Bodies ==
    {ExampleBody,
     WithoutKey(ExampleBody, "class") @@ ("flight_class" :> "text"),
     [ExampleBody EXCEPT !["days_left"] = "digits"],
     WithoutKey(ExampleBody, "days_left"),
     [key \in {"airline", "duration"} |-> ExampleBody[key]],
     [key \in {} |-> "null"],
     [ExampleBody EXCEPT !["days_left"] = "text"],
     [ExampleBody EXCEPT !["days_left"] = "decimal"],
     [ExampleBody EXCEPT !["duration"] = "null"],
     [ExampleBody EXCEPT !["airline"] = "integer"]}

VARIABLES
    aliases,            \* registry: alias name -> version it points to, or NONE
    local_exists,       \* a file exists at MODEL_LOCAL_PATH
    pc,                 \* the service: off, crashed, idle, or the step of its startup / reload handler
    ctx,                \* arguments of the load in progress and who asked for it
    predict_pc,         \* the step of the predict handler, "idle" when none runs
    predict_local,      \* locals of the predict handler
    new_model,          \* local new_model of the load in progress
    new_info,           \* local new_info of the load in progress
    current_model,      \* global current_model
    current_model_info, \* global current_model_info
    clock,              \* loads performed so far (object identity, loaded_at)
    at_entry,           \* <<current_model, current_model_info>> when the handler started
    resp,               \* the last HTTP response the service sent
    REQUEST_COUNT,      \* Counter app_request_count, by <<method, endpoint, status>>
    PREDICTION_COUNT,   \* Counter app_prediction_count, by status
    PREDICTION_VALUE,   \* Histogram app_prediction_value: number of observations
    PREDICTION_LATENCY, \* Histogram app_prediction_latency_ms: number of observations
    MODEL_INFO,         \* Gauge app_model_info: label pairs whose value is 1
    predictions,        \* table predictions: the committed rows, oldest first
    nreq,               \* requests accepted so far
    sent,               \* history: responses sent, by <<endpoint, status>>
    db_failures,        \* history: prediction log writes that failed to commit
    predict_statuses,   \* history: statuses of well-formed predicts since the last load attempt
    promo,              \* the promotion processes
    val,                \* the run of scripts/validate_model.py
    ens,                \* the EnsembleModel object of a training run
    proc,               \* the FlightDataProcessor object
    drift,              \* the DriftDetector object and the reports it wrote
    perf                \* the performance checks made on one model and test set

mlvars == <<ens, proc, drift, perf>>
offlinevars == <<val, mlvars>>
registryvars == <<aliases, local_exists>>
loadvars == <<ctx, new_model, new_info>>
predictvars == <<predict_pc, predict_local>>
globalvars == <<current_model, current_model_info>>
countervars == <<REQUEST_COUNT, PREDICTION_COUNT, PREDICTION_VALUE, PREDICTION_LATENCY>>
logvars == <<predictions, db_failures>>
vars == <<offlinevars, registryvars, pc, loadvars, predictvars, globalvars, clock, at_entry,
          resp, nreq, sent, predict_statuses, countervars, MODEL_INFO, logvars,
          promo>>

\* ------------------------------------------------------------------ values
\* A loaded model object: `load` is its identity (the load that made it),
\* `artifact` the registry version of the artifact it was read from ("local"
\* for the file).  `how` and `resolved` are history: the branch of the load
\* and what get_model_version_by_alias returned during it.
Model(load, artifact, how, resolved) ==
    [load |-> load, artifact |-> artifact, how |-> how, resolved |-> resolved]
NoModel == Model(0, NONE, NONE, NONE)           \* current_model = None
EmptyInfo == [k \in {} |-> NONE]                \* current_model_info = {}
NoCtx == [kind |-> NONE, alias |-> NONE, version |-> NONE, caller |-> NONE,
          defaulted |-> FALSE]
NoLocal == [model |-> NoModel, fault |-> NONE, logged |-> FALSE]
NoResp == [endpoint |-> NONE, status |-> 0, body |-> [k \in {} |-> NONE]]
Running == -1                           \* exit code of a script that has not exited

RequestLabels ==
    { <<"GET", "/health", "200">>, <<"GET", "/model_info", "200">>,
      <<"POST", "/reload", "200">>, <<"POST", "/reload", "500">>,
      <<"POST", "/predict", "503">>, <<"POST", "/predict", "200">>,
      <<"POST", "/predict", "500">> }
SentKeys ==
    { <<e, s>> : e \in {"/health", "/model_info", "/reload", "/predict"},
                 s \in {200, 422, 500, 503} }

Inc(f, k) == [f EXCEPT ![k] = @ + 1]

\* Faulty variant of ModelLoaded: the check is missing.
ModelLoadedAlways(m) == TRUE

\* `not current_model`: the truth value of the global
ModelLoaded(m) == m # NoModel

\* Faulty variant of MlflowModelInfo: the alias is recorded as the version.
MlflowModelInfoAliasAsVersion(version_number, alias, now) ==
    [model_name |-> ModelName, model_version |-> alias,
     model_alias |-> alias, loaded_at |-> now, model_type |-> "ensemble"]

\* model_info built by load_model_from_mlflow
MlflowModelInfo(version_number, alias, now) ==
    [model_name |-> ModelName, model_version |-> version_number,
     model_alias |-> alias, loaded_at |-> now, model_type |-> "ensemble"]

\* model_info built by load_model_local
LocalModelInfo(now) ==
    [model_name |-> ModelName, model_version |-> "local",
     model_alias |-> NONE, loaded_at |-> now, model_type |-> "ensemble"]

\* current_model_info.get('model_alias', 'production')
CurrentAlias(info) ==
    IF "model_alias" \in DOMAIN info THEN info.model_alias ELSE "production"

\* The version a models:/ URI resolves to in the registry, NONE when it
\* does not resolve.  `if alias: ... elif version: ... else: latest`
ResolveUri(alias, version) ==
    IF alias # NONE THEN aliases[alias]
    ELSE IF version # NONE
         THEN (IF version \in Versions THEN version ELSE NONE)
         ELSE LatestVersion

\* The metrics validate_model compares, in the order it compares them
CheckedMetrics == <<"r2_score", "rmse", "mape">>
ThresholdNames == {"min_r2", "max_rmse", "max_mape"}
MetricValues == 0..MaxMetric
ThresholdValues == {1, MaxMetric - 1}      \* a low and a high bound

\* run.data.metrics: each checked metric is recorded or not
MetricRecords ==
    UNION { [S -> MetricValues] : S \in SUBSET {"r2_score", "rmse", "mape"} }

\* config['evaluation']['thresholds']
ThresholdConfigs == [ThresholdNames -> ThresholdValues]

\* The validation script before it is run
NoValidation ==
    [pc |-> "idle", version |-> NONE, auto_promote |-> FALSE,
     thresholds |-> EmptyInfo, metrics |-> EmptyInfo, passed |-> TRUE,
     validation_results |-> EmptyInfo, warnings |-> {}, returned |-> <<>>,
     error |-> NONE, exit |-> Running]

\* The sub-models, in the order build_models inserts them into self.models
SubModels == <<"random_forest", "xgboost", "lightgbm">>
SubModelNames == {"random_forest", "xgboost", "lightgbm"}
Rows == {1, 2}                          \* the feature rows there are
Batches == {<<1>>, <<2>>, <<1, 2>>, <<2, 1>>}   \* the arrays X passed to predict
PredictionValues == 0..MaxPrediction
WeightValues == 0..MaxWeight

\* config['ensemble']['weights']
WeightMappings == [SubModelNames -> WeightValues]

\* What fitting can make of a sub-model: its prediction for every row
FittedModels == [Rows -> PredictionValues]

\* A regressor that was constructed and not fitted
Unfitted == [r \in {} |-> 0]

\* What the last call on the object returned or raised, when it was a
\* predict call
NoResult == [X |-> <<>>, error |-> NONE, value |-> <<>>]

\* No EnsembleModel has been constructed
NoEnsemble ==
    [state |-> "absent", weights |-> EmptyInfo, models |-> EmptyInfo,
     result |-> NoResult]

\* The strings that columns of dtype object hold, in the order Python sorts
\* them
Categories ==
    <<"1h", "1h 30m", "45m", "Air_India", "Evening", "Indigo", "Late_Night", "Vistara">>
CategoryNames == {"Air_India", "Indigo", "Vistara"}
NumValues == 0..MaxValue
Missing == -1                           \* a missing entry of a numerical column
CategoricalColumns == {"airline"}       \* columns of dtype object
NumericalColumns == {"duration", "days_left"}
TargetColumn == "price"                 \* config['data']['target']
FitColumns == {"airline", "duration"}   \* feature columns of the training table
InferenceColumns == {"airline", "duration", "days_left"}
FitRowIds == {1, 2}                     \* rows of the training table
InferenceRowIds == {1}                  \* rows of a table seen at inference

\* The orders in which a table can hold some of the columns `names`
ColumnOrders(names) ==
    { order \in UNION { [1..n -> names] : n \in 0..Cardinality(names) } :
         \A i, j \in DOMAIN order : order[i] = order[j] => i = j }

Range(seq) == { seq[i] : i \in DOMAIN seq }

\* The tables with rows `rows` holding feature columns among `names`, with
\* the target column last when has_target: strings in the categorical
\* columns, numbers in the numerical ones
TablesOver(names, rows, has_target, values) ==
    UNION { { [columns |-> IF has_target THEN Append(order, TargetColumn) ELSE order,
               rows |-> rows, cat |-> cat, num |-> num, derived |-> EmptyInfo,
               price |-> EmptyInfo] :
                 cat \in [Range(order) \cap CategoricalColumns -> [rows -> CategoryNames]],
                 num \in [Range(order) \cap NumericalColumns -> [rows -> values]] } :
            order \in ColumnOrders(names) }

\* The tables without missing entries
Tables(names, rows, has_target) == TablesOver(names, rows, has_target, NumValues)

\* The training tables: some feature column, and the target
FitTables ==
    { t \in Tables(FitColumns, FitRowIds, TRUE) : Len(t.columns) > 1 }

\* The tables passed at inference: some column, with or without the target
InferenceTables ==
    { t \in Tables(InferenceColumns, InferenceRowIds, TRUE)
             \cup Tables(InferenceColumns, InferenceRowIds, FALSE) :
         Len(t.columns) > 0 }

\* Tables of one numerical column in which entries can be missing: the
\* training tables, whose column has some entry, and the batches of two rows
\* passed at inference
BatchRowIds == {1, 2}
ImputeFitTables ==
    { t \in TablesOver({"duration"}, FitRowIds, TRUE, NumValues \cup {Missing}) :
         /\ Len(t.columns) > 1
         /\ \E r \in FitRowIds : t.num["duration"][r] # Missing }
ImputeBatches ==
    { t \in TablesOver({"duration"}, BatchRowIds, TRUE, NumValues \cup {Missing})
             \cup TablesOver({"duration"}, BatchRowIds, FALSE, NumValues \cup {Missing}) :
         Len(t.columns) > 0 }

\* The raw tables given to engineer_features.  The duration is absent, a
\* column of strings or a column of numbers; duration_hours, days_left and
\* departure_time are present or not; `price` holds the target column.
DurationStrings == {"1h", "1h 30m", "45m"}
DepartureTimes == {"Evening", "Late_Night"}
RawColumns ==
    <<"duration", "duration_hours", "days_left", "departure_time", "price">>
PriceValues == {1, 2}
RawValues == {0, 1}                     \* values of a raw numerical column
OptionalColumn(name, values) ==
    [{name} -> [BatchRowIds -> values]] \cup {EmptyInfo}
DurationColumns ==
    { [cat |-> c, num |-> EmptyInfo] :
         c \in OptionalColumn("duration", DurationStrings) }
    \cup { [cat |-> EmptyInfo, num |-> n] :
             n \in OptionalColumn("duration", RawValues) }
RawTables ==
    { [columns |-> SelectSeq(RawColumns,
                     LAMBDA col : col \in DOMAIN (dur.cat @@ dep @@ dur.num @@ hours @@ days)
                                        \cup {"price"}),
       rows |-> BatchRowIds, cat |-> dur.cat @@ dep,
       num |-> dur.num @@ hours @@ days,
       derived |-> EmptyInfo, price |-> price] :
         dur \in DurationColumns,
         hours \in OptionalColumn("duration_hours", RawValues),
         days \in OptionalColumn("days_left", RawValues),
         dep \in OptionalColumn("departure_time", DepartureTimes),
         price \in [BatchRowIds -> PriceValues] }

NoTable ==
    [columns |-> <<>>, rows |-> {}, cat |-> EmptyInfo, num |-> EmptyInfo,
     derived |-> EmptyInfo, price |-> EmptyInfo]

\* What preprocess returned: nothing yet
NoFeatures == [error |-> NONE, columns |-> <<>>, rows |-> <<>>, target |-> FALSE]

\* config['preprocessing']: scale_numerical and scaler.  The scaler is read
\* only when scale_numerical is true; "maxabs" stands for a value that is
\* none of 'standard', 'minmax' and 'robust'.
ScalerTypes == {"standard", "minmax", "robust"}
PreprocessingConfigs ==
    { [scale_numerical |-> FALSE, scaler |-> "standard"] }
    \cup { [scale_numerical |-> TRUE, scaler |-> t] : t \in ScalerTypes \cup {"maxabs"} }

\* self.scaler = None; `fitted` and `params` describe a scaler object:
\* whether fit has returned, and the centre and the spread it learned for
\* every column
NoScaler == [kind |-> NONE, fitted |-> FALSE, params |-> EmptyInfo]

\* No FlightDataProcessor has been constructed.  `recorded` is whether
\* self.feature_names is not None.
NoProcessor ==
    [state |-> "absent", scale_numerical |-> FALSE, label_encoders |-> EmptyInfo,
     recorded |-> FALSE, feature_names |-> <<>>, scaler_type |-> NONE,
     scaler |-> NoScaler, raw |-> NoTable,
     engineered |-> NoTable, fit_input |-> NoTable, input |-> NoTable,
     output |-> NoFeatures]

\* The columns a dataset given to the drift detector can have, and their
\* dtypes
DriftColumns == {"airline", "price"}
Dtypes == {"float64", "object"}
DriftTables == UNION { [S -> Dtypes] : S \in SUBSET DriftColumns }
ReportPaths == {NONE, "drift.html"}     \* the argument report_path
MinSamples == 100                       \* if len(predictions) < 100
SampleSizes == {MinSamples - 1, MinSamples}     \* numbers of current records

\* No DriftDetector has been constructed
NoDetector ==
    [state |-> "absent", reference |-> EmptyInfo, current |-> EmptyInfo,
     n_current |-> 0, calls |-> 0, runs |-> 0, saved |-> 0, error |-> NONE, compared |-> <<>>,
     reference_aligned |-> EmptyInfo, current_aligned |-> EmptyInfo,
     report_path |-> NONE]

\* The test set and the predictions of the model on it: two samples, true
\* prices that are positive and not all equal
Samples == 1..2
MaxPrice == MaxPrediction + 2
TruePrices ==
    { y \in [Samples -> 1..MaxPrice] : \E i, j \in Samples : y[i] # y[j] }
PredictedPrices == [Samples -> 0..MaxPrice]

\* config['evaluation']['thresholds'] with thresholds that are halves, as
\* pairs <<numerator, denominator>>
HalfThresholds == [ThresholdNames -> { <<n, 2>> : n \in 1..(MaxMetric - 1) }]

\* No model has been trained and no test set written
NoPerformance ==
    [state |-> "absent", y_test |-> <<>>, y_pred |-> <<>>, thresholds |-> EmptyInfo,
     logged |-> <<>>, registered |-> FALSE, evaluate |-> <<>>, validate |-> <<>>,
     test |-> <<>>]

\* The registry when the run starts: no alias assigned yet, or version 1
\* promoted to the serving alias by an earlier run of the promotion script.
InitialRegistries ==
    { [a \in AliasNames |-> NONE],
      [a \in AliasNames |-> IF a = MODEL_ALIAS THEN "1" ELSE NONE] }

Init ==
    /\ aliases \in InitialRegistries
    /\ local_exists \in BOOLEAN
    /\ pc = "off"
    /\ ctx = NoCtx
    /\ predict_pc = "idle"
    /\ predict_local = NoLocal
    /\ new_model = NoModel
    /\ new_info = EmptyInfo
    /\ current_model = NoModel
    /\ current_model_info = EmptyInfo
    /\ clock = 0
    /\ at_entry = <<NoModel, EmptyInfo>>
    /\ resp = NoResp
    /\ REQUEST_COUNT = [l \in RequestLabels |-> 0]
    /\ PREDICTION_COUNT = [s \in {"success", "error"} |-> 0]
    /\ PREDICTION_VALUE = 0
    /\ PREDICTION_LATENCY = 0
    /\ MODEL_INFO = {}
    /\ predictions = <<>>
    /\ nreq = 0
    /\ sent = [k \in SentKeys |-> 0]
    /\ db_failures = 0
    /\ predict_statuses = {}
    /\ promo = [p \in Procs |->
                  [pc |-> "idle", version |-> NONE, alias |-> NONE,
                   alias_version |-> NONE, notify |-> "none", exit |-> Running,
                   error |-> NONE]]
    /\ val = NoValidation
    /\ ens = NoEnsemble
    /\ proc = NoProcessor
    /\ drift = NoDetector
    /\ perf = NoPerformance

\* The state in which the training and monitoring code is run: nothing
\* promoted yet, no local artifact
InitOffline ==
    /\ Init
    /\ aliases = [a \in AliasNames |-> NONE]
    /\ local_exists = FALSE

\* ------------------------------------------------------- service helpers
\* The startup / reload handler returns, leaving `model` and `info` in the
\* globals: its locals are gone.
ReturnToLoop(model, info) ==
    /\ pc' = "idle"
    /\ ctx' = NoCtx
    /\ new_model' = NoModel
    /\ new_info' = EmptyInfo
    /\ at_entry' = <<model, info>>

\* A promotion script waiting for the answer to its POST /reload gets it.
DeliverTo(caller, outcome) ==
    IF caller \in Procs /\ promo[caller].pc = "await_reload"
    THEN promo' = [promo EXCEPT ![caller].pc = "done",
                                ![caller].notify = outcome,
                                ![caller].exit = 0]
    ELSE UNCHANGED promo

Respond(endpoint, status, body) ==
    /\ resp' = [endpoint |-> endpoint, status |-> status, body |-> body]
    /\ sent' = Inc(sent, <<endpoint, status>>)

\* Faulty variant of LoopFree: handlers declared with plain `def` run in the
\* framework's thread pool, so one can start while another is running.
LoopFreeThreaded == TRUE

\* The handlers are `async def` and never await: the event loop starts a
\* handler only when no other handler is running.
LoopFree == pc = "idle" /\ predict_pc = "idle"

\* The service is up and takes one more request.
Accept ==
    /\ pc \notin {"off", "crashed"}
    /\ ctx.kind # "startup"
    /\ LoopFree
    /\ nreq < MaxRequests
    /\ nreq' = nreq + 1

\* ----------------------------------------------------------------- startup
\* tests/test_api.py: TestClient(app) used without a `with` block serves
\* requests without running the startup event.
serve_without_startup ==
    /\ pc = "off"
    /\ pc' = "idle"
    /\ UNCHANGED <<offlinevars, registryvars, loadvars, predictvars, globalvars, clock, at_entry,
                   resp, nreq, sent, predict_statuses, countervars, MODEL_INFO,
                   logvars, promo>>

\* startup_event -> initialize_model: try the registry under MODEL_ALIAS
startup_event ==
    /\ pc = "off"
    /\ pc' = "load_artifact"
    /\ ctx' = [NoCtx EXCEPT !.kind = "startup", !.alias = MODEL_ALIAS]
    /\ predict_statuses' = {}
    /\ UNCHANGED <<offlinevars, registryvars, new_model, new_info, predictvars, globalvars, clock,
                   at_entry, resp, nreq, sent, countervars, MODEL_INFO, logvars,
                   promo>>

\* -------------------------------------------------- load_model_from_mlflow
\* First registry read: mlflow.sklearn.load_model(model_uri).  `reachable`
\* is whether the registry answers.
load_artifact(reachable) ==
    /\ pc = "load_artifact"
    /\ LET target == ResolveUri(ctx.alias, ctx.version)
           now == clock + 1
       IN  IF reachable /\ target # NONE
           THEN /\ new_model' = Model(now, target,
                                     IF ctx.alias # NONE THEN "alias"
                                     ELSE IF ctx.version # NONE THEN "version"
                                     ELSE "latest", NONE)
                /\ clock' = now
                /\ IF ctx.alias # NONE
                   THEN /\ pc' = "load_version"
                        /\ new_info' = new_info
                   ELSE /\ pc' = "loaded"
                        /\ new_info' = MlflowModelInfo(
                               IF ctx.version # NONE THEN ctx.version ELSE "latest",
                               ctx.alias, now)
           ELSE /\ pc' = "load_failed"
                /\ UNCHANGED <<new_model, new_info, clock>>
    /\ UNCHANGED <<offlinevars, registryvars, ctx, predictvars, globalvars, at_entry, resp, nreq,
                   sent, predict_statuses, countervars, MODEL_INFO, logvars, promo>>

\* Second registry read: client.get_model_version_by_alias(model_name, alias)
load_version(reachable) ==
    /\ pc = "load_version"
    /\ IF reachable /\ aliases[ctx.alias] # NONE
       THEN /\ pc' = "loaded"
            /\ new_info' = MlflowModelInfo(aliases[ctx.alias], ctx.alias, new_model.load)
            /\ new_model' = [new_model EXCEPT !.resolved = aliases[ctx.alias]]
       ELSE /\ pc' = "load_failed"
            /\ UNCHANGED <<new_model, new_info>>
    /\ UNCHANGED <<offlinevars, registryvars, ctx, predictvars, globalvars, clock,
                   at_entry, resp, nreq, sent, predict_statuses, countervars,
                   MODEL_INFO, logvars, promo>>

\* ---------------------------------------------------------- initialize_model
\* current_model, current_model_info = load_model_from_mlflow(alias=alias);
\* MODEL_INFO.labels(...).set(1)
initialize_from_mlflow ==
    /\ pc = "loaded"
    /\ ctx.kind = "startup"
    /\ current_model' = new_model
    /\ current_model_info' = new_info
    /\ MODEL_INFO' = MODEL_INFO \cup {<<new_info.model_name, new_info.model_version>>}
    /\ ReturnToLoop(new_model, new_info)
    /\ UNCHANGED <<offlinevars, registryvars, predictvars, clock, resp, nreq, sent,
                   predict_statuses, countervars, logvars, promo>>

\* except: current_model, current_model_info = load_model_local()
initialize_from_local ==
    /\ pc = "load_failed"
    /\ ctx.kind = "startup"
    /\ local_exists
    /\ clock' = clock + 1
    /\ current_model' = Model(clock + 1, "local", "local", NONE)
    /\ current_model_info' = LocalModelInfo(clock + 1)
    /\ MODEL_INFO' = MODEL_INFO \cup {<<ModelName, "local">>}
    /\ ReturnToLoop(Model(clock + 1, "local", "local", NONE), LocalModelInfo(clock + 1))
    /\ UNCHANGED <<offlinevars, registryvars, predictvars, resp, nreq, sent, predict_statuses,
                   countervars, logvars, promo>>

\* Faulty variant of initialize_fails: the error is logged and not re-raised,
\* so the service starts without a model.
initialize_fails_swallowed ==
    /\ pc = "load_failed"
    /\ ctx.kind = "startup"
    /\ ~local_exists
    /\ ReturnToLoop(NoModel, EmptyInfo)
    /\ UNCHANGED <<offlinevars, registryvars, predictvars, globalvars, clock, resp, nreq, sent,
                   predict_statuses, countervars, MODEL_INFO, logvars, promo>>

\* load_model_local raises FileNotFoundError: initialize_model re-raises and
\* the service does not start.
initialize_fails ==
    /\ pc = "load_failed"
    /\ ctx.kind = "startup"
    /\ ~local_exists
    /\ pc' = "crashed"
    /\ UNCHANGED <<offlinevars, registryvars, loadvars, predictvars, globalvars, clock, at_entry,
                   resp, nreq, sent, predict_statuses, countervars, MODEL_INFO,
                   logvars, promo>>

\* ------------------------------------------------------------------ /health
\* Faulty variant of HealthBody: model_loaded is hard-wired.
HealthBodyAlwaysLoaded(model) ==
    [status |-> "healthy", model_loaded |-> TRUE]

\* The body of the health response: "model_loaded": current_model is not None
HealthBody(model) ==
    [status |-> "healthy", model_loaded |-> (model # NoModel)]

health_check ==
    /\ Accept
    /\ REQUEST_COUNT' = Inc(REQUEST_COUNT, <<"GET", "/health", "200">>)
    /\ Respond("/health", 200, HealthBody(current_model))
    /\ UNCHANGED <<offlinevars, registryvars, pc, loadvars, predictvars, globalvars, clock,
                   at_entry, predict_statuses, PREDICTION_COUNT, PREDICTION_VALUE,
                   PREDICTION_LATENCY, MODEL_INFO, logvars, promo>>

\* -------------------------------------------------------------- /model_info
get_model_info ==
    /\ Accept
    /\ REQUEST_COUNT' = Inc(REQUEST_COUNT, <<"GET", "/model_info", "200">>)
    /\ IF ~ModelLoaded(current_model)
       THEN Respond("/model_info", 503, [detail |-> "Model not loaded"])
       ELSE Respond("/model_info", 200, current_model_info)
    /\ UNCHANGED <<offlinevars, registryvars, pc, loadvars, predictvars, globalvars, clock,
                   at_entry, predict_statuses, PREDICTION_COUNT, PREDICTION_VALUE,
                   PREDICTION_LATENCY, MODEL_INFO, logvars, promo>>

\* ------------------------------------------------------------------ /reload
\* The branch reload_model takes for its query parameters: the arguments it
\* passes to load_model_from_mlflow.
ReloadArgs(alias, version) ==
    IF alias # NONE THEN [alias |-> alias, version |-> NONE]
    ELSE IF version # NONE THEN [alias |-> NONE, version |-> version]
    ELSE [alias |-> CurrentAlias(current_model_info), version |-> NONE]

\* The handler starts, for the client `caller` (NONE: an operator or a test).
\* `defaulted` is history: the request gave neither alias nor version.
ReloadBegin(alias, version, caller) ==
    /\ Accept
    /\ pc = "idle"
    /\ pc' = "load_artifact"
    /\ ctx' = [kind |-> "reload",
               alias |-> ReloadArgs(alias, version).alias,
               version |-> ReloadArgs(alias, version).version,
               caller |-> caller,
               defaulted |-> (alias = NONE /\ version = NONE)]
    /\ at_entry' = <<current_model, current_model_info>>
    /\ predict_statuses' = {}
    /\ UNCHANGED <<offlinevars, registryvars, new_model, new_info, predictvars, globalvars, clock,
                   resp, sent, countervars, MODEL_INFO, logvars>>

reload_model(alias, version) ==
    /\ ReloadBegin(alias, version, NONE)
    /\ UNCHANGED promo

\* current_model = new_model
reload_swap_model ==
    /\ pc = "loaded"
    /\ ctx.kind = "reload"
    /\ pc' = "swap_info"
    /\ current_model' = new_model
    /\ UNCHANGED <<offlinevars, registryvars, loadvars, predictvars, current_model_info, clock,
                   at_entry, resp, nreq, sent, predict_statuses, countervars,
                   MODEL_INFO, logvars, promo>>

\* current_model_info = new_info; gauge; request counter; the 200 response
reload_swap_info ==
    /\ pc = "swap_info"
    /\ current_model_info' = new_info
    /\ MODEL_INFO' = MODEL_INFO \cup {<<new_info.model_name, new_info.model_version>>}
    /\ REQUEST_COUNT' = Inc(REQUEST_COUNT, <<"POST", "/reload", "200">>)
    /\ Respond("/reload", 200, [status |-> "success", model_info |-> new_info])
    /\ DeliverTo(ctx.caller, "ok")
    /\ ReturnToLoop(current_model, new_info)
    /\ UNCHANGED <<offlinevars, registryvars, predictvars, current_model, clock, nreq,
                   predict_statuses, PREDICTION_COUNT, PREDICTION_VALUE,
                   PREDICTION_LATENCY, logvars>>

\* Faulty variant of reload_failed: a failed load puts the service back in
\* its uninitialized state.
reload_failed_resets ==
    /\ pc = "load_failed"
    /\ ctx.kind = "reload"
    /\ current_model' = NoModel
    /\ current_model_info' = EmptyInfo
    /\ REQUEST_COUNT' = Inc(REQUEST_COUNT, <<"POST", "/reload", "500">>)
    /\ Respond("/reload", 500, [detail |-> "Failed to reload model"])
    /\ DeliverTo(ctx.caller, "failed")
    /\ ReturnToLoop(NoModel, EmptyInfo)
    /\ UNCHANGED <<offlinevars, registryvars, predictvars, clock, nreq,
                   predict_statuses, PREDICTION_COUNT, PREDICTION_VALUE,
                   PREDICTION_LATENCY, MODEL_INFO, logvars>>

\* except Exception: count a 500 and raise HTTPException(500)
reload_failed ==
    /\ pc = "load_failed"
    /\ ctx.kind = "reload"
    /\ REQUEST_COUNT' = Inc(REQUEST_COUNT, <<"POST", "/reload", "500">>)
    /\ Respond("/reload", 500, [detail |-> "Failed to reload model"])
    /\ DeliverTo(ctx.caller, "failed")
    /\ ReturnToLoop(current_model, current_model_info)
    /\ UNCHANGED <<offlinevars, registryvars, predictvars, globalvars, clock, nreq,
                   predict_statuses, PREDICTION_COUNT, PREDICTION_VALUE,
                   PREDICTION_LATENCY, MODEL_INFO, logvars>>

\* ----------------------------------------------------------------- /predict
\* A value of the kind `kind` is accepted for a field of the declared type:
\* a str field takes strings only, a float field numbers and numeric
\* strings, an int field whole numbers and strings of digits
Accepts(type, kind) ==
    CASE type = "str" -> kind \in {"text", "digits"}
      [] type = "float" -> kind \in {"integer", "decimal", "digits"}
      [] type = "int" -> kind \in {"integer", "digits"}

\* The body validates against FlightFeatures: every field is present,
\* under its alias or (populate_by_name) under its name, the alias first,
\* with a value its type accepts
Validates(body) ==
    \A field \in FieldNames :
       LET key == IF FieldAlias(field) \in DOMAIN body THEN FieldAlias(field)
                  ELSE field
       IN  key \in DOMAIN body /\ Accepts(FieldType(field), body[key])

\* Faulty variant of predict_invalid: the body is validated inside the
\* handler, after the check of the model, and a failure is counted as a
\* prediction error.
predict_invalid_in_handler(body) ==
    /\ Accept
    /\ ~Validates(body)
    /\ PREDICTION_COUNT' = Inc(PREDICTION_COUNT, "error")
    /\ Respond("/predict", 422, [detail |-> "validation error"])
    /\ UNCHANGED <<offlinevars, registryvars, pc, loadvars, predictvars, globalvars, clock,
                   at_entry, predict_statuses, REQUEST_COUNT, PREDICTION_VALUE,
                   PREDICTION_LATENCY, MODEL_INFO, logvars, promo>>

\* A body that does not validate against FlightFeatures: the framework
\* answers 422 and the handler is not called.
predict_invalid(body) ==
    /\ Accept
    /\ ~Validates(body)
    /\ Respond("/predict", 422, [detail |-> "validation error"])
    /\ UNCHANGED <<offlinevars, registryvars, pc, loadvars, predictvars, globalvars, clock,
                   at_entry, predict_statuses, countervars, MODEL_INFO, logvars,
                   promo>>

\* Faulty variant of predict_unavailable: the error counter is forgotten.
predict_unavailable_uncounted(body) ==
    /\ Accept
    /\ Validates(body)
    /\ predict_pc = "idle"
    /\ ~ModelLoaded(current_model)
    /\ REQUEST_COUNT' = Inc(REQUEST_COUNT, <<"POST", "/predict", "503">>)
    /\ Respond("/predict", 503, [detail |-> "Model not loaded"])
    /\ predict_statuses' = predict_statuses \cup {503}
    /\ UNCHANGED <<offlinevars, registryvars, pc, loadvars, predictvars, globalvars, clock,
                   at_entry, PREDICTION_COUNT, PREDICTION_VALUE, PREDICTION_LATENCY,
                   MODEL_INFO, logvars, promo>>

\* A body that validates reaches the handler.
\* if not current_model: count 503 / error and raise HTTPException(503)
predict_unavailable(body) ==
    /\ Accept
    /\ Validates(body)
    /\ predict_pc = "idle"
    /\ ~ModelLoaded(current_model)
    /\ REQUEST_COUNT' = Inc(REQUEST_COUNT, <<"POST", "/predict", "503">>)
    /\ PREDICTION_COUNT' = Inc(PREDICTION_COUNT, "error")
    /\ Respond("/predict", 503, [detail |-> "Model not loaded"])
    /\ predict_statuses' = predict_statuses \cup {503}
    /\ UNCHANGED <<offlinevars, registryvars, pc, loadvars, predictvars, globalvars, clock,
                   at_entry, PREDICTION_VALUE, PREDICTION_LATENCY, MODEL_INFO,
                   logvars, promo>>

\* The handler passes the model check and enters its try block.
predict_begin(body) ==
    /\ Accept
    /\ Validates(body)
    /\ predict_pc = "idle"
    /\ ModelLoaded(current_model)
    /\ predict_pc' = "predict_log"
    /\ predict_local' = [model |-> current_model, fault |-> NONE, logged |-> FALSE]
    /\ UNCHANGED <<offlinevars, registryvars, pc, loadvars, globalvars, clock, at_entry, resp,
                   sent, predict_statuses, countervars, MODEL_INFO, logvars,
                   promo>>

\* Faulty variant of predict_log: the log write is not wrapped in its own
\* try, so a fault reaches the outer except, which answers 500.
predict_log_unguarded(fault) ==
    /\ predict_pc = "predict_log"
    /\ IF fault \in {"none", "close"}
       THEN /\ predictions' = Append(predictions,
                   [predicted_price |-> PlaceholderPrice,
                    model_name |-> current_model_info.model_name,
                    model_version |-> current_model_info.model_version])
            /\ db_failures' = db_failures
       ELSE /\ predictions' = predictions
            /\ db_failures' = db_failures + 1
    /\ IF fault = "none"
       THEN /\ predict_pc' = "predict_respond"
            /\ predict_local' = [predict_local EXCEPT !.fault = fault, !.logged = TRUE]
            /\ UNCHANGED <<resp, sent, predict_statuses, countervars>>
       ELSE /\ predict_pc' = "idle"
            /\ predict_local' = NoLocal
            /\ REQUEST_COUNT' = Inc(REQUEST_COUNT, <<"POST", "/predict", "500">>)
            /\ PREDICTION_COUNT' = Inc(PREDICTION_COUNT, "error")
            /\ Respond("/predict", 500, [detail |-> "Prediction failed"])
            /\ predict_statuses' = predict_statuses \cup {500}
            /\ UNCHANGED <<PREDICTION_VALUE, PREDICTION_LATENCY>>
    /\ UNCHANGED <<offlinevars, registryvars, pc, loadvars, globalvars, clock, at_entry, nreq,
                   MODEL_INFO, promo>>

\* The inner try: get_session, Prediction(...), add, commit, close.  `fault`
\* is the call that raises; the row is in the table once commit has returned.
\* A missing key of current_model_info raises inside the same try.
predict_log(fault) ==
    /\ predict_pc = "predict_log"
    /\ LET committed == /\ fault \in {"none", "close"}
                        /\ {"model_name", "model_version"} \subseteq DOMAIN current_model_info
       IN  /\ IF committed
              THEN /\ predictions' = Append(predictions,
                          [predicted_price |-> PlaceholderPrice,
                           model_name |-> current_model_info.model_name,
                           model_version |-> current_model_info.model_version])
                   /\ db_failures' = db_failures
              ELSE /\ predictions' = predictions
                   /\ db_failures' = db_failures + 1
           /\ predict_local' = [predict_local EXCEPT !.fault = fault,
                                                     !.logged = committed]
    /\ predict_pc' = "predict_respond"
    /\ UNCHANGED <<offlinevars, registryvars, pc, loadvars, globalvars, clock, at_entry, resp,
                   nreq, sent, predict_statuses, countervars, MODEL_INFO, promo>>

\* Counters, histograms and the PredictionResponse.  Building the response
\* reads current_model_info again; a missing key raises after the success
\* counters were incremented and the outer except answers 500.  In the
\* response, `model`, `loaded_at`, `db_fault` and `logged` are history: the
\* model object the check at the top of the handler saw, the load the
\* metadata belongs to, and what happened to the log write.
predict_respond ==
    /\ predict_pc = "predict_respond"
    /\ PREDICTION_VALUE' = PREDICTION_VALUE + 1
    /\ PREDICTION_LATENCY' = PREDICTION_LATENCY + 1
    /\ IF {"model_name", "model_version"} \subseteq DOMAIN current_model_info
       THEN /\ REQUEST_COUNT' = Inc(REQUEST_COUNT, <<"POST", "/predict", "200">>)
            /\ PREDICTION_COUNT' = Inc(PREDICTION_COUNT, "success")
            /\ Respond("/predict", 200,
                       [predicted_price |-> PlaceholderPrice,
                        model_name |-> current_model_info.model_name,
                        model_version |-> current_model_info.model_version,
                        loaded_at |-> current_model_info.loaded_at,
                        model |-> predict_local.model,
                        db_fault |-> predict_local.fault,
                        logged |-> predict_local.logged])
            /\ predict_statuses' = predict_statuses \cup {200}
       ELSE /\ REQUEST_COUNT' = Inc(Inc(REQUEST_COUNT, <<"POST", "/predict", "200">>),
                                    <<"POST", "/predict", "500">>)
            /\ PREDICTION_COUNT' = Inc(Inc(PREDICTION_COUNT, "success"), "error")
            /\ Respond("/predict", 500, [detail |-> "Prediction failed"])
            /\ predict_statuses' = predict_statuses \cup {500}
    /\ predict_pc' = "idle"
    /\ predict_local' = NoLocal
    /\ UNCHANGED <<offlinevars, registryvars, pc, loadvars, globalvars, clock, at_entry, nreq,
                   MODEL_INFO, logvars, promo>>

\* ------------------------------------------------ scripts/promote_model.py
\* promote_model(model_name, version, alias) is called.  The processes are
\* interchangeable: p2 is the one started second.
promote_model(p, version, alias) ==
    /\ promo[p].pc = "idle"
    /\ p = "p2" => promo["p1"].pc # "idle"
    /\ promo' = [promo EXCEPT ![p] =
                   [pc |-> "get_version", version |-> version, alias |-> alias,
                    alias_version |-> NONE, notify |-> "none", exit |-> Running,
                    error |-> NONE]]
    /\ UNCHANGED <<offlinevars, registryvars, pc, loadvars, predictvars, globalvars, clock,
                   at_entry, resp, nreq, sent, predict_statuses, countervars,
                   MODEL_INFO, logvars>>

\* except Exception as e: logger.error(f"Failed to promote model: {e}");
\* sys.exit(1).  The registry client raises MlflowException when it answers
\* that the version or the alias does not exist, and ConnectionError when it
\* does not answer.
ExitFailure(p, e) ==
    promo' = [promo EXCEPT ![p].pc = "exited", ![p].exit = 1, ![p].error = e]

\* Faulty variant of promote_get_version: the lookup is skipped.
promote_get_version_unchecked(p, reachable) ==
    /\ promo[p].pc = "get_version"
    /\ IF reachable
       THEN promo' = [promo EXCEPT ![p].pc = "set_alias"]
       ELSE ExitFailure(p, IF reachable THEN "MlflowException" ELSE "ConnectionError")
    /\ UNCHANGED <<offlinevars, registryvars, pc, loadvars, predictvars, globalvars, clock,
                   at_entry, resp, nreq, sent, predict_statuses, countervars,
                   MODEL_INFO, logvars>>

\* client.get_model_version(model_name, version): raises when the version
\* is not in the registry or the registry does not answer
promote_get_version(p, reachable) ==
    /\ promo[p].pc = "get_version"
    /\ IF reachable /\ promo[p].version \in Versions
       THEN promo' = [promo EXCEPT ![p].pc = "set_alias"]
       ELSE ExitFailure(p, IF reachable THEN "MlflowException" ELSE "ConnectionError")
    /\ UNCHANGED <<offlinevars, registryvars, pc, loadvars, predictvars, globalvars, clock,
                   at_entry, resp, nreq, sent, predict_statuses, countervars,
                   MODEL_INFO, logvars>>

\* Faulty variant of promote_set_alias: an alias that is already assigned is
\* refused by the registry instead of being moved.
promote_set_alias_once(p, reachable) ==
    /\ promo[p].pc = "set_alias"
    /\ IF reachable /\ aliases[promo[p].alias] = NONE
       THEN /\ aliases' = [aliases EXCEPT ![promo[p].alias] = promo[p].version]
            /\ promo' = [promo EXCEPT ![p].pc = "verify"]
       ELSE /\ aliases' = aliases
            /\ ExitFailure(p, IF reachable THEN "MlflowException" ELSE "ConnectionError")
    /\ UNCHANGED <<offlinevars, local_exists, pc, loadvars, predictvars, globalvars, clock,
                   at_entry, resp, nreq, sent, predict_statuses, countervars,
                   MODEL_INFO, logvars>>

\* client.set_registered_model_alias(model_name, alias, version): the
\* registry assigns the alias, moving it when it is assigned already.
promote_set_alias(p, reachable) ==
    /\ promo[p].pc = "set_alias"
    /\ IF reachable
       THEN /\ aliases' = [aliases EXCEPT ![promo[p].alias] = promo[p].version]
            /\ promo' = [promo EXCEPT ![p].pc = "verify"]
       ELSE /\ aliases' = aliases
            /\ ExitFailure(p, "ConnectionError")
    /\ UNCHANGED <<offlinevars, local_exists, pc, loadvars, predictvars, globalvars, clock,
                   at_entry, resp, nreq, sent, predict_statuses, countervars,
                   MODEL_INFO, logvars>>

\* alias_version = client.get_model_version_by_alias(model_name, alias); the
\* version read is logged as verified, whatever it is.  `if reload_app:`
\* goes on to notify the service.
promote_verify(p, reachable) ==
    /\ promo[p].pc = "verify"
    /\ IF reachable /\ aliases[promo[p].alias] # NONE
       THEN promo' = [promo EXCEPT
                        ![p].alias_version = aliases[promo[p].alias],
                        ![p].pc = IF reload_app THEN "notify" ELSE "done",
                        ![p].exit = IF reload_app THEN Running ELSE 0]
       ELSE ExitFailure(p, IF reachable THEN "MlflowException" ELSE "ConnectionError")
    /\ UNCHANGED <<offlinevars, registryvars, pc, loadvars, predictvars, globalvars, clock,
                   at_entry, resp, nreq, sent, predict_statuses, countervars,
                   MODEL_INFO, logvars>>

\* requests.post(f"{api_url}/reload", params={"alias": alias}, timeout=30)
\* reaches the service, which starts its reload handler.
promote_notify(p) ==
    /\ promo[p].pc = "notify"
    /\ ReloadBegin(promo[p].alias, NONE, p)
    /\ promo' = [promo EXCEPT ![p].pc = "await_reload", ![p].notify = "sent"]

\* Faulty variant of promote_notify_raises: the inner try/except is missing
\* and the exception reaches the outer handler.
promote_notify_raises_uncaught(p) ==
    /\ promo[p].pc \in {"notify", "await_reload"}
    /\ promo' = [promo EXCEPT ![p].pc = "exited", ![p].notify = "failed",
                              ![p].exit = 1, ![p].error = "ConnectionError"]
    /\ UNCHANGED <<offlinevars, registryvars, pc, loadvars, predictvars, globalvars, clock,
                   at_entry, resp, nreq, sent, predict_statuses, countervars,
                   MODEL_INFO, logvars>>

\* The POST raises (connection refused, timeout): logged, and the promotion
\* completes.
promote_notify_raises(p) ==
    /\ promo[p].pc \in {"notify", "await_reload"}
    /\ promo' = [promo EXCEPT ![p].pc = "done", ![p].notify = "failed", ![p].exit = 0]
    /\ UNCHANGED <<offlinevars, registryvars, pc, loadvars, predictvars, globalvars, clock,
                   at_entry, resp, nreq, sent, predict_statuses, countervars,
                   MODEL_INFO, logvars>>

\* ----------------------------------------------- scripts/validate_model.py
\* thresholds['min_r2'], thresholds['max_rmse'], thresholds['max_mape']
ThresholdOf(name) ==
    CASE name = "r2_score" -> "min_r2"
      [] name = "rmse" -> "max_rmse"
      [] name = "mape" -> "max_mape"

\* Faulty variant of CheckPassed: a value on the bound does not meet it.
CheckPassedStrict(name, value, threshold) ==
    IF name = "r2_score" THEN value > threshold ELSE value < threshold

\* r2 >= threshold; rmse <= threshold; mape <= threshold
CheckPassed(name, value, threshold) ==
    IF name = "r2_score" THEN value >= threshold ELSE value <= threshold

\* Nothing checked yet: passed = True, validation_results = {}
NoChecks == [passed |-> TRUE, validation_results |-> EmptyInfo, warnings |-> {}]

\* Faulty variant of ValidateThresholds: the checks stop at the first one
\* that fails.
RECURSIVE ValidateThresholdsShortCircuit(_, _, _, _)
ValidateThresholdsShortCircuit(i, metrics, thresholds, acc) ==
    IF i > Len(CheckedMetrics) \/ ~acc.passed
    THEN acc
    ELSE LET name == CheckedMetrics[i]
             value == metrics[name]
             threshold == thresholds[ThresholdOf(name)]
             ok == CheckPassed(name, value, threshold)
         IN  IF name \in DOMAIN metrics
             THEN ValidateThresholdsShortCircuit(i + 1, metrics, thresholds,
                    [passed |-> acc.passed /\ ok,
                     validation_results |-> acc.validation_results @@
                        (name :> [value |-> value, threshold |-> threshold,
                                  passed |-> ok]),
                     warnings |-> IF ok THEN acc.warnings
                                        ELSE acc.warnings \cup {name}])
             ELSE ValidateThresholdsShortCircuit(i + 1, metrics, thresholds, acc)

\* The three `if '<metric>' in metrics:` blocks from the i-th on, run one
\* after the other: each records its entry of validation_results, logs a
\* warning and clears `passed` when the bound is not met.
RECURSIVE ValidateThresholds(_, _, _, _)
ValidateThresholds(i, metrics, thresholds, acc) ==
    IF i > Len(CheckedMetrics)
    THEN acc
    ELSE LET name == CheckedMetrics[i]
             value == metrics[name]
             threshold == thresholds[ThresholdOf(name)]
             ok == CheckPassed(name, value, threshold)
         IN  IF name \in DOMAIN metrics
             THEN ValidateThresholds(i + 1, metrics, thresholds,
                    [passed |-> acc.passed /\ ok,
                     validation_results |-> acc.validation_results @@
                        (name :> [value |-> value, threshold |-> threshold,
                                  passed |-> ok]),
                     warnings |-> IF ok THEN acc.warnings
                                        ELSE acc.warnings \cup {name}])
             ELSE ValidateThresholds(i + 1, metrics, thresholds, acc)

\* __main__ parses the arguments and calls validate_model, which loads the
\* thresholds of the configuration.
validate_main(version, auto_promote, thresholds) ==
    /\ val.pc = "idle"
    /\ val' = [val EXCEPT !.pc = "get_run", !.version = version,
                          !.auto_promote = auto_promote,
                          !.thresholds = thresholds]
    /\ UNCHANGED <<mlvars, registryvars, pc, loadvars, predictvars, globalvars, clock,
                   at_entry, resp, nreq, sent, predict_statuses, countervars,
                   MODEL_INFO, logvars, promo>>

\* client.get_model_version(model_name, version) and client.get_run(run_id):
\* the metrics recorded for the run, or an exception that the handler turns
\* into `return False`.
validate_get_run(reachable, metrics) ==
    /\ val.pc = "get_run"
    /\ IF reachable /\ val.version \in Versions
       THEN val' = [val EXCEPT !.pc = "checks", !.metrics = metrics]
       ELSE val' = [val EXCEPT !.pc = "returned", !.returned = <<FALSE>>,
                              !.error = IF reachable THEN "MlflowException"
                                                     ELSE "ConnectionError"]
    /\ UNCHANGED <<mlvars, registryvars, pc, loadvars, predictvars, globalvars, clock,
                   at_entry, resp, nreq, sent, predict_statuses, countervars,
                   MODEL_INFO, logvars, promo>>

\* # Validate thresholds
validate_thresholds ==
    /\ val.pc = "checks"
    /\ LET checked == ValidateThresholds(1, val.metrics, val.thresholds, NoChecks)
       IN  val' = [val EXCEPT !.pc = "overall",
                              !.passed = checked.passed,
                              !.validation_results = checked.validation_results,
                              !.warnings = checked.warnings]
    /\ UNCHANGED <<mlvars, registryvars, pc, loadvars, predictvars, globalvars, clock,
                   at_entry, resp, nreq, sent, predict_statuses, countervars,
                   MODEL_INFO, logvars, promo>>

\* Faulty variant of validate_overall: the promotion is not nested in
\* `if passed:`.
validate_overall_always_promotes ==
    /\ val.pc = "overall"
    /\ IF val.auto_promote
       THEN /\ val' = [val EXCEPT !.pc = "promoting"]
            /\ promo' = [promo EXCEPT !["p1"] =
                           [pc |-> "get_version", version |-> val.version,
                            alias |-> "production", alias_version |-> NONE,
                            notify |-> "none", exit |-> Running, error |-> NONE]]
       ELSE /\ val' = [val EXCEPT !.pc = "returned", !.returned = <<val.passed>>]
            /\ UNCHANGED promo
    /\ UNCHANGED <<mlvars, registryvars, pc, loadvars, predictvars, globalvars, clock,
                   at_entry, resp, nreq, sent, predict_statuses, countervars,
                   MODEL_INFO, logvars>>

\* # Overall result: `if passed:` with auto_promote calls
\* promote_model(model_name, version, alias='production') in this process;
\* otherwise `return passed`.
validate_overall ==
    /\ val.pc = "overall"
    /\ IF val.passed /\ val.auto_promote
       THEN /\ val' = [val EXCEPT !.pc = "promoting"]
            /\ promo' = [promo EXCEPT !["p1"] =
                           [pc |-> "get_version", version |-> val.version,
                            alias |-> "production", alias_version |-> NONE,
                            notify |-> "none", exit |-> Running, error |-> NONE]]
       ELSE /\ val' = [val EXCEPT !.pc = "returned", !.returned = <<val.passed>>]
            /\ UNCHANGED promo
    /\ UNCHANGED <<mlvars, registryvars, pc, loadvars, predictvars, globalvars, clock,
                   at_entry, resp, nreq, sent, predict_statuses, countervars,
                   MODEL_INFO, logvars>>

\* promote_model returned: `return passed`
validate_promoted ==
    /\ val.pc = "promoting"
    /\ promo["p1"].pc = "done"
    /\ val' = [val EXCEPT !.pc = "returned", !.returned = <<val.passed>>]
    /\ UNCHANGED <<mlvars, registryvars, pc, loadvars, predictvars, globalvars, clock,
                   at_entry, resp, nreq, sent, predict_statuses, countervars,
                   MODEL_INFO, logvars, promo>>

\* Faulty variant of validate_system_exit: the exit of the promotion is
\* caught and turned into the value of `passed`.
validate_system_exit_caught ==
    /\ val.pc = "promoting"
    /\ promo["p1"].pc = "exited"
    /\ val' = [val EXCEPT !.pc = "exited", !.returned = <<val.passed>>,
                          !.exit = IF val.passed THEN 0 ELSE 1]
    /\ UNCHANGED <<mlvars, registryvars, pc, loadvars, predictvars, globalvars, clock,
                   at_entry, resp, nreq, sent, predict_statuses, countervars,
                   MODEL_INFO, logvars, promo>>

\* promote_model called sys.exit(1): SystemExit is not an Exception, so it
\* passes `except Exception` and ends the script with code 1 before
\* validate_model returns anything.
validate_system_exit ==
    /\ val.pc = "promoting"
    /\ promo["p1"].pc = "exited"
    /\ val' = [val EXCEPT !.pc = "exited", !.exit = promo["p1"].exit]
    /\ UNCHANGED <<mlvars, registryvars, pc, loadvars, predictvars, globalvars, clock,
                   at_entry, resp, nreq, sent, predict_statuses, countervars,
                   MODEL_INFO, logvars, promo>>

\* sys.exit(0 if passed else 1)
validate_exit ==
    /\ val.pc = "returned"
    /\ val' = [val EXCEPT !.pc = "exited",
                          !.exit = IF val.returned[1] THEN 0 ELSE 1]
    /\ UNCHANGED <<mlvars, registryvars, pc, loadvars, predictvars, globalvars, clock,
                   at_entry, resp, nreq, sent, predict_statuses, countervars,
                   MODEL_INFO, logvars, promo>>

\* ------------------------------------------------------- src/ml/models.py
\* All the variables of the service, the registry and the promotions
servicevars ==
    <<registryvars, pc, loadvars, predictvars, globalvars, clock, at_entry,
      resp, nreq, sent, predict_statuses, countervars, MODEL_INFO, logvars,
      promo>>

\* The names of self.models, in insertion order
BuiltModels(models) ==
    SelectSeq(SubModels, LAMBDA name : name \in DOMAIN models)

\* model.predict(X) of a sub-model: the library raises its not-fitted error
\* for a regressor that was never fitted
SubModelPredict(model, X) ==
    IF model = Unfitted
    THEN [error |-> "NotFittedError", value |-> <<>>]
    ELSE [error |-> NONE, value |-> [i \in 1..Len(X) |-> model[X[i]]]]

\* for name, model in self.models.items(): predictions[name] = model.predict(X)
\* from the i-th model on; the first exception ends the loop
RECURSIVE CollectPredictions(_, _, _, _)
CollectPredictions(i, models, X, preds) ==
    IF i > Len(BuiltModels(models))
    THEN [error |-> NONE, preds |-> preds]
    ELSE LET name == BuiltModels(models)[i]
             pred == SubModelPredict(models[name], X)
         IN  IF pred.error # NONE
             THEN [error |-> pred.error, preds |-> preds]
             ELSE CollectPredictions(i + 1, models, X,
                                     preds @@ (name :> pred.value))

\* Faulty variant of WeightedSum: the weighted prediction is assigned, not
\* added.
RECURSIVE WeightedSumAssigned(_, _, _, _)
WeightedSumAssigned(i, preds, weights, ensemble_pred) ==
    IF i > Len(BuiltModels(preds))
    THEN ensemble_pred
    ELSE LET name == BuiltModels(preds)[i]
             weight == weights[name]
             pred == preds[name]
         IN  WeightedSumAssigned(i + 1, preds, weights,
                [k \in DOMAIN ensemble_pred |-> weight * pred[k]])

\* for name, pred in predictions.items(): ensemble_pred += weight * pred
\* from the i-th prediction on
RECURSIVE WeightedSum(_, _, _, _)
WeightedSum(i, preds, weights, ensemble_pred) ==
    IF i > Len(BuiltModels(preds))
    THEN ensemble_pred
    ELSE LET name == BuiltModels(preds)[i]
             weight == weights[name]
             pred == preds[name]
         IN  WeightedSum(i + 1, preds, weights,
                [k \in DOMAIN ensemble_pred |-> ensemble_pred[k] + weight * pred[k]])

\* EnsembleModel.predict of src/ml/models.py
EnsembleModel_predict(models, weights, X) ==
    LET collected == CollectPredictions(1, models, X, EmptyInfo)
        preds == collected.preds
    IN  IF collected.error # NONE
        THEN [X |-> X, error |-> collected.error, value |-> <<>>]
        ELSE IF "random_forest" \notin DOMAIN preds
        THEN [X |-> X, error |-> "KeyError", value |-> <<>>]
        ELSE [X |-> X, error |-> NONE,
              value |-> WeightedSum(1, preds, weights,
                           [k \in DOMAIN preds["random_forest"] |-> 0])]

\* EnsembleModel.predict of src/ml/train.py, the copy of the class that the
\* training script defines for itself
train_EnsembleModel_predict(models, weights, X) ==
    LET collected == CollectPredictions(1, models, X, EmptyInfo)
        preds == collected.preds
    IN  IF collected.error # NONE
        THEN [X |-> X, error |-> collected.error, value |-> <<>>]
        ELSE IF "random_forest" \notin DOMAIN preds
        THEN [X |-> X, error |-> "KeyError", value |-> <<>>]
        ELSE [X |-> X, error |-> NONE,
              value |-> WeightedSum(1, preds, weights,
                           [k \in DOMAIN preds["random_forest"] |-> 0])]

\* model = EnsembleModel(config)
EnsembleModel_init(weights) ==
    /\ ens.state = "absent"
    /\ ens' = [state |-> "constructed", weights |-> weights,
               models |-> EmptyInfo, result |-> NoResult]
    /\ UNCHANGED <<val, proc, drift, perf, servicevars>>

\* model.build_models(): three new regressors, none fitted
build_models ==
    /\ ens.state = "constructed"
    /\ ens' = [ens EXCEPT !.state = "built",
                          !.models = [name \in SubModelNames |-> Unfitted],
                          !.result = NoResult]
    /\ UNCHANGED <<val, proc, drift, perf, servicevars>>

\* model.train(X_train, y_train), called once: the sub-models are fitted one
\* after the other; a fit that raises ends the call and leaves the later
\* ones unfitted.  Without built models the loop has nothing to do.
train(fits, completed) ==
    /\ ens.state \in {"constructed", "built"}
    /\ ens' = [ens EXCEPT !.state = "trained",
                          !.models =
                             [name \in DOMAIN ens.models |->
                                IF \E i \in 1..completed : SubModels[i] = name
                                THEN fits[name]
                                ELSE ens.models[name]],
                          !.result = NoResult]
    /\ UNCHANGED <<val, proc, drift, perf, servicevars>>

\* model.predict(X), with the class of either module
ensemble_predict(X) ==
    /\ ens.state \in {"constructed", "built", "trained"}
    /\ \E module \in {"src.ml.models", "src.ml.train"} :
          ens' = [ens EXCEPT !.result =
                    IF module = "src.ml.models"
                    THEN EnsembleModel_predict(ens.models, ens.weights, X)
                    ELSE train_EnsembleModel_predict(ens.models, ens.weights, X)]
    /\ UNCHANGED <<val, proc, drift, perf, servicevars>>

\* --------------------------------------------------------- src/ml/data.py
\* The position of a category in the sorted order
Rank(v) == CHOOSE i \in DOMAIN Categories : Categories[i] = v

\* LabelEncoder.fit: classes_ is the sorted set of the values of the column
Classes(values) == Range(values)

\* LabelEncoder.transform of a value of classes_: its index in classes_
LabelCode(classes, v) == Cardinality({ c \in classes : Rank(c) < Rank(v) })

\* Faulty variant of EncodeSeen: an unseen value gets code 0.
EncodeSeenOrZero(classes, v) ==
    IF v \in classes THEN LabelCode(classes, v) ELSE 0

\* lambda x: le.transform([x])[0] if x in le.classes_ else -1
EncodeSeen(classes, v) ==
    IF v \in classes THEN LabelCode(classes, v) ELSE -1

\* df.drop(columns=[target]): the columns left, in order
FeatureColumnsOf(table) ==
    SelectSeq(table.columns, LAMBDA col : col # TargetColumn)

\* The entries of the returned array are rationals num/den in lowest terms;
\* NaN has den = 0
NaN == [num |-> 0, den |-> 0]

RECURSIVE GCD(_, _)
GCD(a, b) == IF b = 0 THEN a ELSE GCD(b, a % b)

Frac(n, d) ==
    LET g == GCD(IF n < 0 THEN -n ELSE n, d)
    IN  [num |-> n \div g, den |-> d \div g]

Less(a, b) == a.num * b.den < b.num * a.den
Minus(a, b) == Frac(a.num * b.den - b.num * a.den, a.den * b.den)
Quotient(a, b) == Frac(a.num * b.den, a.den * b.num)
Plus(a, b) == Frac(a.num * b.den + b.num * a.den, a.den * b.den)
Times(a, b) == Frac(a.num * b.num, a.den * b.den)

\* Series.median(): the median of the entries of the column that are not
\* missing, the mean of the two middle ones when their number is even, NaN
\* when there is none
Median(values) ==
    LET present == { r \in DOMAIN values : values[r] # Missing }
        n == Cardinality(present)
        Kth(k) == CHOOSE x \in { values[r] : r \in present } :
                     /\ Cardinality({ r \in present : values[r] < x }) < k
                     /\ Cardinality({ r \in present : values[r] <= x }) >= k
    IN  IF n = 0 THEN NaN
        ELSE IF n % 2 = 1 THEN Frac(Kth((n + 1) \div 2), 1)
        ELSE Frac(Kth(n \div 2) + Kth(n \div 2 + 1), 2)

\* df[col] = df[col].fillna(df[col].median()): the median is that of the
\* table passed to this call
FillMissing(values) ==
    [r \in DOMAIN values |->
       IF values[r] = Missing THEN Median(values) ELSE Frac(values[r], 1)]

\* The loops over the numerical features and over the columns of dtype
\* object: the table with missing entries filled and every column numeric
EncodeColumns(self, table, fit) ==
    [col \in Range(FeatureColumnsOf(table)) |->
       IF col \in DOMAIN table.cat
       THEN IF fit
            THEN [r \in table.rows |->
                    Frac(LabelCode(Classes(table.cat[col]), table.cat[col][r]), 1)]
            ELSE IF col \in DOMAIN self.label_encoders
                 THEN [r \in table.rows |->
                         Frac(EncodeSeen(self.label_encoders[col], table.cat[col][r]), 1)]
                 ELSE [r \in table.rows |-> Frac(0, 1)]
       ELSE IF col \in DOMAIN table.derived
       THEN table.derived[col]
       ELSE IF col \in NumericalColumns
       THEN FillMissing(table.num[col])
       ELSE [r \in table.rows |-> Frac(table.num[col][r], 1)]]

\* Faulty variant of AlignedColumns: the missing columns are added and the
\* table is not reindexed.
AlignedColumnsAppended(feature_names, columns) ==
    columns \o SelectSeq(feature_names, LAMBDA col : col \notin Range(columns))

\* df = df[self.feature_names]
AlignedColumns(feature_names, columns) == feature_names

\* for col in missing_cols: df[col] = 0, then the selection of the columns
AlignData(encoded, columns, rows) ==
    [col \in Range(columns) |->
       IF col \in DOMAIN encoded THEN encoded[col] ELSE [r \in rows |-> Frac(0, 1)]]

Least(S) == CHOOSE x \in S : \A y \in S : ~Less(y, x)
Greatest(S) == CHOOSE x \in S : \A y \in S : ~Less(x, y)

\* The sum of the entries of `values` in the rows S
RECURSIVE SumRows(_, _)
SumRows(values, S) ==
    IF S = {} THEN Frac(0, 1)
    ELSE LET r == CHOOSE r \in S : TRUE
         IN  Plus(values[r], SumRows(values, S \ {r}))

\* The k-th smallest of the entries of `values` in the rows S
KthSmallest(values, S, k) ==
    CHOOSE x \in { values[r] : r \in S } :
       /\ Cardinality({ r \in S : Less(values[r], x) }) < k
       /\ Cardinality({ r \in S : ~Less(x, values[r]) }) >= k

\* np.nanpercentile(values, q): linear interpolation between the two order
\* statistics around the position (n - 1) * q / 100
Percentile(values, S, q) ==
    LET n == Cardinality(S)
        pos == Frac((n - 1) * q, 100)
        below == pos.num \div pos.den
        lo == KthSmallest(values, S, below + 1)
        hi == KthSmallest(values, S, IF below + 2 > n THEN n ELSE below + 2)
    IN  Plus(lo, Times(Minus(pos, Frac(below, 1)), Minus(hi, lo)))

\* The square root of a rational that is a square, as the standard
\* deviation of a column of at most two entries is
SqrtFrac(q) ==
    LET Root(n) == CHOOSE k \in 0..n : k * k = n
    IN  Frac(Root(q.num), Root(q.den))

\* scaler.fit: the centre and the spread of every column, taken over the
\* entries that are not NaN, NaN for a column that has none.  MinMaxScaler:
\* the minimum and max - min; StandardScaler: the mean and the standard
\* deviation; RobustScaler: the median and the interquartile range.
FitScaler(kind, data) ==
    [col \in DOMAIN data |->
       LET values == data[col]
           present == { r \in DOMAIN values : values[r] # NaN }
           n == Frac(Cardinality(present), 1)
           mean == Quotient(SumRows(values, present), n)
           var == Quotient(SumRows([r \in present |->
                                      Times(Minus(values[r], mean),
                                            Minus(values[r], mean))], present), n)
       IN  IF present = {}
           THEN [center |-> NaN, scale |-> NaN]
           ELSE CASE kind = "minmax" ->
                       [center |-> Least({ values[r] : r \in present }),
                        scale |-> Minus(Greatest({ values[r] : r \in present }),
                                        Least({ values[r] : r \in present }))]
                  [] kind = "standard" ->
                       [center |-> mean, scale |-> SqrtFrac(var)]
                  [] kind = "robust" ->
                       [center |-> Percentile(values, present, 50),
                        scale |-> Minus(Percentile(values, present, 75),
                                        Percentile(values, present, 25))]]

\* scaler.transform of one value: (x - centre) / spread; a column whose
\* spread was zero at fit time is divided by 1, and NaN stays NaN
Scale(params, col, x) ==
    IF x = NaN \/ params[col].center = NaN
    THEN NaN
    ELSE Quotient(Minus(x, params[col].center),
                  IF params[col].scale.num = 0 THEN Frac(1, 1) ELSE params[col].scale)

\* df.values / scaler.transform(df): one vector per row, in column order
FeatureRows(self, params, columns, data, rows) ==
    [r \in rows |->
       [j \in DOMAIN columns |->
          IF self.scale_numerical
          THEN Scale(params, columns[j], data[columns[j]][r])
          ELSE data[columns[j]][r]]]

\* str(duration_str).replace('m', '').split('h') with the parts as numbers:
\* <<>> when the string has no 'h', a second part that is blank left out
DurationParts(duration_str) ==
    CASE duration_str = "1h" -> <<1>>
      [] duration_str = "1h 30m" -> <<1, 30>>
      [] duration_str = "45m" -> <<>>

\* _parse_duration: hours = 0.0, and when the string has an 'h',
\* float(parts[0]) plus float(parts[1]) / 60 when the second part is not
\* blank
parse_duration(duration_str) ==
    LET parts == DurationParts(duration_str)
    IN  IF parts = <<>> THEN Frac(0, 1)
        ELSE IF Len(parts) = 1 THEN Frac(parts[1], 1)
        ELSE Plus(Frac(parts[1], 1), Frac(parts[2], 60))

\* pd.cut(days_left, bins=[0, 7, 14, 30, 60, inf], labels=[4, 3, 2, 1, 0])
\* with intervals closed on the right, then fillna(0): a value outside every
\* interval, or a missing one, gives 0
BookingUrgency(days_left) ==
    IF days_left <= 0 THEN 0
    ELSE IF days_left <= 7 THEN 4
    ELSE IF days_left <= 14 THEN 3
    ELSE IF days_left <= 30 THEN 2
    ELSE IF days_left <= 60 THEN 1
    ELSE 0

\* df['departure_time'].isin(['Late_Night']).astype(int)
IsWeekend(departure_time) == IF departure_time = "Late_Night" THEN 1 ELSE 0

\* The columns engineer_features can add, in the order it adds them
DerivedColumns ==
    <<"duration_hours", "price_per_hour", "booking_urgency", "is_weekend">>

\* engineer_features(df): the table with the derived columns, a column that
\* exists being assigned in place and a new one appended
EngineeredTable(df) ==
    LET parsed == "duration" \in DOMAIN df.cat
        has_hours == parsed \/ "duration_hours" \in DOMAIN df.num
        duration_hours ==
            [r \in df.rows |->
               IF parsed THEN parse_duration(df.cat["duration"][r])
               ELSE Frac(df.num["duration_hours"][r], 1)]
        derived ==
            (IF parsed THEN "duration_hours" :> duration_hours ELSE EmptyInfo)
            @@ (IF has_hours /\ "price" \in Range(df.columns)
                THEN "price_per_hour" :>
                        [r \in df.rows |->
                           Quotient(Frac(df.price[r], 1),
                                    Plus(duration_hours[r], Frac(1, 1)))]
                ELSE EmptyInfo)
            @@ (IF "days_left" \in DOMAIN df.num
                THEN "booking_urgency" :>
                        [r \in df.rows |->
                           Frac(BookingUrgency(df.num["days_left"][r]), 1)]
                ELSE EmptyInfo)
            @@ (IF "departure_time" \in DOMAIN df.cat
                THEN "is_weekend" :>
                        [r \in df.rows |->
                           Frac(IsWeekend(df.cat["departure_time"][r]), 1)]
                ELSE EmptyInfo)
    IN  [df EXCEPT
           !.columns = df.columns \o
                SelectSeq(DerivedColumns,
                          LAMBDA col : col \in DOMAIN derived
                                       /\ col \notin Range(df.columns)),
           !.num = [col \in DOMAIN df.num \ DOMAIN derived |-> df.num[col]],
           !.derived = derived]

\* processor = FlightDataProcessor()
FlightDataProcessor_init(scale_numerical, scaler) ==
    /\ proc.state = "absent"
    /\ proc' = [NoProcessor EXCEPT !.state = "constructed",
                                   !.scale_numerical = scale_numerical,
                                   !.scaler_type = scaler]
    /\ UNCHANGED <<val, ens, drift, perf, servicevars>>

\* df[col].median() of a numerical feature whose column holds strings
\* raises TypeError
MedianRaises(table) == NumericalColumns \cap DOMAIN table.cat # {}

\* What self.preprocess(table, fit=True) raises, NONE when it returns:
\* TypeError from the median of strings; with scaling, AttributeError from
\* self.scaler.fit_transform when the scaler type is none of the three and
\* self.scaler is still None, and ValueError from fit_transform on a frame
\* without columns
FitError(self, table) ==
    IF MedianRaises(table) THEN "TypeError"
    ELSE IF ~self.scale_numerical THEN NONE
    ELSE IF self.scaler_type \notin ScalerTypes THEN "AttributeError"
    ELSE IF FeatureColumnsOf(table) = <<>> THEN "ValueError"
    ELSE NONE

\* The processor after self.preprocess(table, fit=True).  The encoders and
\* the feature names are assigned before the scaler is built, and the scaler
\* object before it is fitted.
PreprocessFit(self, table) ==
    LET columns == FeatureColumnsOf(table)
        data == EncodeColumns(self, table, TRUE)
        error == FitError(self, table)
        params == IF self.scale_numerical /\ error = NONE
                  THEN FitScaler(self.scaler_type, data) ELSE EmptyInfo
        encoded == [self EXCEPT
                      !.label_encoders =
                         [col \in Range(columns) \cap DOMAIN table.cat |->
                            Classes(table.cat[col])],
                      !.recorded = TRUE,
                      !.feature_names = columns,
                      !.fit_input = table,
                      !.input = table]
    IN  IF error = "TypeError"
        THEN [self EXCEPT !.state = "fit_failed", !.fit_input = table,
                          !.input = table,
                          !.output = [NoFeatures EXCEPT !.error = error]]
        ELSE IF error = "AttributeError"
        THEN [encoded EXCEPT !.state = "fit_failed",
                             !.output = [NoFeatures EXCEPT !.error = error]]
        ELSE IF error = "ValueError"
        THEN [encoded EXCEPT !.state = "fit_failed",
                             !.scaler = [NoScaler EXCEPT !.kind = self.scaler_type],
                             !.output = [NoFeatures EXCEPT !.error = error]]
        ELSE [encoded EXCEPT
                !.state = "fitted",
                !.scaler = IF self.scale_numerical
                           THEN [kind |-> self.scaler_type, fitted |-> TRUE,
                                 params |-> params]
                           ELSE NoScaler,
                !.output =
                   [error |-> NONE, columns |-> columns,
                    rows |-> FeatureRows(self, params, columns, data, table.rows),
                    target |-> TargetColumn \in Range(table.columns)]]

\* processor.preprocess(df, fit=True)
preprocess_fit(table) ==
    /\ proc.state = "constructed"
    /\ proc' = PreprocessFit(proc, table)
    /\ UNCHANGED <<val, ens, drift, perf, servicevars>>

\* self.scaler.transform(df) raises ValueError for a frame whose columns are
\* not the ones the scaler was fitted on, in that order
ScalerRejects(self, columns) ==
    self.scale_numerical /\ columns # self.feature_names

\* What self.preprocess(table, fit=False) raises, NONE when it returns:
\* TypeError from the median of strings or from set(self.feature_names)
\* when no fit=True call recorded the names; with scaling, ValueError
\* ("Scaler not fitted") when self.scaler is None, NotFittedError from a
\* scaler whose fit did not return, ValueError from a scaler given other
\* columns than at fit
TransformError(self, table) ==
    IF MedianRaises(table) \/ ~self.recorded THEN "TypeError"
    ELSE IF ~self.scale_numerical THEN NONE
    ELSE IF self.scaler.kind = NONE THEN "ValueError"
    ELSE IF ~self.scaler.fitted THEN "NotFittedError"
    ELSE IF ScalerRejects(self, AlignedColumns(self.feature_names,
                                               FeatureColumnsOf(table)))
    THEN "ValueError"
    ELSE NONE

\* df = processor.engineer_features(df) in prepare_datasets
engineer_features(df) ==
    /\ proc.state = "constructed"
    /\ proc.raw = NoTable
    /\ proc' = [proc EXCEPT !.raw = df, !.engineered = EngineeredTable(df)]
    /\ UNCHANGED <<val, ens, drift, perf, servicevars>>

\* features, target = processor.preprocess(df, fit=True) in prepare_datasets,
\* on the table engineer_features returned
prepare_datasets_preprocess ==
    /\ proc.engineered # NoTable
    /\ preprocess_fit(proc.engineered)

\* processor.preprocess(df, fit=False), before any fit=True call, after one
\* that returned or after one that raised
preprocess_transform(table) ==
    /\ proc.state \in {"constructed", "fitted", "fit_failed"}
    /\ IF TransformError(proc, table) # NONE
       THEN proc' = [proc EXCEPT !.state = "failed", !.input = table,
                                 !.output = [NoFeatures EXCEPT
                                               !.error = TransformError(proc, table)]]
       ELSE LET columns == AlignedColumns(proc.feature_names, FeatureColumnsOf(table))
                data == AlignData(EncodeColumns(proc, table, FALSE), columns, table.rows)
            IN  proc' = [proc EXCEPT
                           !.state = "transformed",
                           !.input = table,
                           !.output =
                              [error |-> NONE, columns |-> columns,
                               rows |-> FeatureRows(proc, proc.scaler.params, columns,
                                                    data, table.rows),
                               target |-> TargetColumn \in Range(table.columns)]]
    /\ UNCHANGED <<val, ens, drift, perf, servicevars>>

\* ------------------------------------------- src/monitoring/drift_detection.py
\* reference_cols.intersection(current_cols)
CommonColumns(reference, current) == DOMAIN reference \cap DOMAIN current

\* Faulty variant of NoCommonColumns: the check is missing.
NoCommonColumnsUnchecked(common_cols) == FALSE

\* if not common_cols: raise ValueError("No common columns ...")
NoCommonColumns(common_cols) == common_cols = {}

\* # Ensure consistent dtypes: the dtypes of a common column in the two
\* aligned frames.  A cast of strings to numbers can fail, and then both
\* columns are converted to strings.
AlignedDtypes(reference_dtype, current_dtype, castable) ==
    IF reference_dtype = current_dtype
    THEN [reference |-> reference_dtype, current |-> current_dtype]
    ELSE IF reference_dtype = "object" \/ castable
    THEN [reference |-> reference_dtype, current |-> reference_dtype]
    ELSE [reference |-> "object", current |-> "object"]

\* detector = DriftDetector(): reads the reference dataset
DriftDetector_init(reference) ==
    /\ drift.state = "absent"
    /\ drift' = [NoDetector EXCEPT !.state = "ready", !.reference = reference]
    /\ UNCHANGED <<val, ens, proc, perf, servicevars>>

\* The body of detect_drift on the detector `self`: the detector and what it
\* has written once the call has returned or raised.  `order` is the order
\* in which list() happens to enumerate the set of common columns.  The
\* number of current records is logged and returned, and not tested.
\* `castable` is the set of the columns whose current values can be cast to
\* the dtype of the reference: the cast is tried column by column.
DetectDrift(self, current, n_current, report_path, castable, order) ==
    LET common_cols == CommonColumns(self.reference, current)
    IN  IF NoCommonColumns(common_cols)
        THEN [self EXCEPT !.calls = @ + 1, !.current = current,
                          !.n_current = n_current,
                          !.error = "ValueError",
                          !.compared = <<>>,
                          !.reference_aligned = EmptyInfo,
                          !.current_aligned = EmptyInfo,
                          !.report_path = NONE]
        ELSE [self EXCEPT
                !.calls = @ + 1, !.current = current,
                !.n_current = n_current,
                !.error = NONE,
                !.compared = order,
                !.reference_aligned =
                   [col \in common_cols |->
                      AlignedDtypes(self.reference[col], current[col],
                                    col \in castable).reference],
                !.current_aligned =
                   [col \in common_cols |->
                      AlignedDtypes(self.reference[col], current[col],
                                    col \in castable).current],
                !.runs = @ + 1,
                !.saved = @ + 1,
                !.report_path = IF report_path = NONE
                                THEN "reports/drift_report.html"
                                ELSE report_path]

\* detector.detect_drift(current_data, report_path) on n_current records
detect_drift(current, n_current, report_path, castable) ==
    /\ drift.state = "ready"
    /\ drift.calls < MaxDetections
    /\ \E order \in ColumnOrders(CommonColumns(drift.reference, current)) :
          /\ Range(order) = CommonColumns(drift.reference, current)
          /\ drift' = DetectDrift(drift, current, n_current, report_path,
                                  castable, order)
    /\ UNCHANGED <<val, ens, proc, perf, servicevars>>

\* monitor_production_drift(hours) finding n_predictions rows in the window:
\* with fewer than 100 it logs a warning and returns None; otherwise it
\* builds current_data from the features and the predicted price, constructs
\* a detector on the reference file and calls detect_drift.
monitor_production_drift(n_predictions, reference, current, castable) ==
    /\ drift.state = "absent"
    /\ "price" \in DOMAIN current
    /\ IF n_predictions < MinSamples
       THEN drift' = [NoDetector EXCEPT !.state = "skipped",
                                        !.n_current = n_predictions]
       ELSE \E order \in ColumnOrders(CommonColumns(reference, current)) :
               /\ Range(order) = CommonColumns(reference, current)
               /\ drift' = [DetectDrift([NoDetector EXCEPT !.reference = reference],
                                        current, n_predictions, NONE, castable,
                                        order)
                              EXCEPT !.state = "monitored"]
    /\ UNCHANGED <<val, ens, proc, perf, servicevars>>

\* ------------------------- src/ml/evaluate.py, src/ml/train.py, tests/test_model.py
Abs(x) == IF x < 0 THEN -x ELSE x

\* np.mean(f(i) for the samples from the i-th on), given the sum so far
RECURSIVE MeanFrom(_, _, _)
MeanFrom(i, f, sum) ==
    IF i > Len(f) THEN Quotient(sum, Frac(Len(f), 1))
    ELSE MeanFrom(i + 1, f, Plus(sum, f[i]))

Mean(f) == MeanFrom(1, f, Frac(0, 1))

\* np.mean(np.abs((y_test - y_pred) / y_test))
MeanAbsPctError(y_test, y_pred) ==
    Mean([i \in DOMAIN y_test |-> Frac(Abs(y_test[i] - y_pred[i]), y_test[i])])

\* mean_absolute_error(y_test, y_pred)
MeanAbsError(y_test, y_pred) ==
    Mean([i \in DOMAIN y_test |-> Frac(Abs(y_test[i] - y_pred[i]), 1)])

\* mean_squared_error(y_test, y_pred)
MeanSquaredError(y_test, y_pred) ==
    Mean([i \in DOMAIN y_test |->
            Frac((y_test[i] - y_pred[i]) * (y_test[i] - y_pred[i]), 1)])

\* r2_score(y_test, y_pred) = 1 - SS_res / SS_tot, for true values that are
\* not all equal
R2Score(y_test, y_pred) ==
    LET mean == Mean([i \in DOMAIN y_test |-> Frac(y_test[i], 1)])
        ss_res == Times(MeanSquaredError(y_test, y_pred), Frac(Len(y_test), 1))
        ss_tot == Times(Mean([i \in DOMAIN y_test |->
                                Times(Minus(Frac(y_test[i], 1), mean),
                                      Minus(Frac(y_test[i], 1), mean))]),
                        Frac(Len(y_test), 1))
    IN  Minus(Frac(1, 1), Quotient(ss_res, ss_tot))

\* mape of evaluate() and of evaluate_model() in train.py: a percentage
MapePercent(y_test, y_pred) == Times(MeanAbsPctError(y_test, y_pred), Frac(100, 1))

\* mape of test_model_performance: a fraction
MapeFraction(y_test, y_pred) == MeanAbsPctError(y_test, y_pred)

\* The metrics of a model on the test set, with the mape `mape`.  The rmse
\* is kept as its square, the mean squared error.
Metrics(y_test, y_pred, mape) ==
    [mae |-> MeanAbsError(y_test, y_pred),
     r2_score |-> R2Score(y_test, y_pred),
     mse |-> MeanSquaredError(y_test, y_pred),
     mape |-> mape]

\* thresholds[name] as a rational
Threshold(thresholds, name) == Frac(thresholds[name][1], thresholds[name][2])

\* The names of the checks `r2 >= min_r2`, `rmse <= max_rmse` and
\* `mape <= max_mape` that the metrics fail; rmse <= t is compared as
\* mse <= t * t, the thresholds being positive
FailedChecks(metrics, thresholds) ==
    { name \in {"r2_score", "rmse", "mape"} :
        CASE name = "r2_score" ->
                Less(metrics.r2_score, Threshold(thresholds, "min_r2"))
          [] name = "rmse" ->
                Less(Times(Threshold(thresholds, "max_rmse"),
                           Threshold(thresholds, "max_rmse")), metrics.mse)
          [] name = "mape" ->
                Less(Threshold(thresholds, "max_mape"), metrics.mape) }

\* evaluate_model(model, X_test, y_test) of train.py: the metrics of the
\* model on the test set, the mape as a percentage
evaluate_model(y_test, y_pred) ==
    Metrics(y_test, y_pred, MapePercent(y_test, y_pred))

\* train_model(): the model is trained and evaluated on the test set, the
\* metrics are logged to the run, the model is written to
\* models/latest.joblib, the file the service falls back to, and logged to
\* the run as a new version of the registered model.  `thresholds` are the
\* configured ones.
train_model(y_test, y_pred, thresholds) ==
    /\ perf.state = "absent"
    /\ perf' = [NoPerformance EXCEPT !.state = "trained", !.y_test = y_test,
                                     !.y_pred = y_pred, !.thresholds = thresholds,
                                     !.logged = <<evaluate_model(y_test, y_pred)>>,
                                     !.registered = TRUE]
    /\ local_exists' = TRUE
    /\ UNCHANGED <<val, ens, proc, drift, aliases, pc, loadvars, predictvars,
                   globalvars, clock, at_entry, resp, nreq, sent, predict_statuses,
                   countervars, MODEL_INFO, logvars, promo>>

\* The threshold checks of validate_model on the metrics logged for the run
validate_logged_metrics ==
    /\ perf.registered
    /\ perf.validate = <<>>
    /\ perf' = [perf EXCEPT !.validate =
                   <<[mape |-> perf.logged[1].mape,
                      failed |-> FailedChecks(perf.logged[1], perf.thresholds)]>>]
    /\ UNCHANGED <<val, ens, proc, drift, servicevars>>

\* evaluate() of evaluate.py: every check is made; `passed` is cleared by
\* each one that fails
evaluate ==
    /\ perf.state = "trained"
    /\ perf.evaluate = <<>>
    /\ LET metrics == Metrics(perf.y_test, perf.y_pred,
                              MapePercent(perf.y_test, perf.y_pred))
       IN  perf' = [perf EXCEPT !.evaluate =
                      <<[mape |-> metrics.mape,
                         failed |-> FailedChecks(metrics, perf.thresholds)]>>]
    /\ UNCHANGED <<val, ens, proc, drift, servicevars>>

\* test_model_performance: the three assertions in order; the first one
\* that fails ends the test, so `failed` holds at most that one
test_model_performance ==
    /\ perf.state = "trained"
    /\ perf.test = <<>>
    /\ LET metrics == Metrics(perf.y_test, perf.y_pred,
                              MapeFraction(perf.y_test, perf.y_pred))
           failed == FailedChecks(metrics, perf.thresholds)
       IN  perf' = [perf EXCEPT !.test =
                      <<[mape |-> metrics.mape,
                         failed |-> IF "r2_score" \in failed THEN {"r2_score"}
                                    ELSE IF "rmse" \in failed THEN {"rmse"}
                                    ELSE failed]>>]
    /\ UNCHANGED <<val, ens, proc, drift, servicevars>>

\* --------------------------------------------------------------------- Next
\* The steps of the service's startup and of its reload handler
LoadStep ==
    \/ serve_without_startup
    \/ startup_event
    \/ \E reachable \in BOOLEAN : load_artifact(reachable)
    \/ \E reachable \in BOOLEAN : load_version(reachable)
    \/ initialize_from_mlflow
    \/ initialize_from_local
    \/ initialize_fails
    \/ reload_swap_model
    \/ reload_swap_info
    \/ reload_failed

\* The requests of operators and clients
RequestStep ==
    \/ health_check
    \/ get_model_info
    \/ \E alias \in AliasNames \cup {NONE}, version \in RequestedVersions \cup {NONE} :
          reload_model(alias, version)
    \/ \E body \in Bodies : predict_invalid(body)
    \/ \E body \in Bodies : predict_unavailable(body)
    \/ \E body \in Bodies : predict_begin(body)
    \/ \E fault \in DbFaults : predict_log(fault)
    \/ predict_respond

\* The steps of the promotion script run as process p
PromoteStep(p) ==
    \/ \E version \in RequestedVersions, alias \in AliasNames :
          promote_model(p, version, alias)
    \/ \E reachable \in BOOLEAN : promote_get_version(p, reachable)
    \/ \E reachable \in BOOLEAN : promote_set_alias(p, reachable)
    \/ \E reachable \in BOOLEAN : promote_verify(p, reachable)
    \/ promote_notify(p)
    \/ promote_notify_raises(p)

\* The serving API with all its endpoints, next to one promotion
Next ==
    \/ LoadStep
    \/ RequestStep
    \/ \E p \in ServingProcs : PromoteStep(p)

Spec == Init /\ [][Next]_vars

\* Concurrent promotions, next to a service that only starts and reloads
NextPromote ==
    \/ LoadStep
    \/ \E p \in Procs : PromoteStep(p)

SpecPromote == Init /\ [][NextPromote]_vars

\* The steps of the validation script
ValidateStep ==
    \/ \E version \in RequestedVersions, auto_promote \in BOOLEAN,
          thresholds \in ThresholdConfigs :
          validate_main(version, auto_promote, thresholds)
    \/ \E reachable \in BOOLEAN, metrics \in MetricRecords :
          validate_get_run(reachable, metrics)
    \/ validate_thresholds
    \/ validate_overall
    \/ validate_promoted
    \/ validate_system_exit
    \/ validate_exit

\* The promotion that the validation script runs inside its own process:
\* the POST of the reload notification is answered by the service when it
\* is up, and raises otherwise.
AutoPromoteStep ==
    \/ \E reachable \in BOOLEAN : promote_get_version("p1", reachable)
    \/ \E reachable \in BOOLEAN : promote_set_alias("p1", reachable)
    \/ \E reachable \in BOOLEAN : promote_verify("p1", reachable)
    \/ promote_notify("p1")
    \/ promote_notify_raises("p1")

\* One run of the validation script, next to a service that starts and
\* serves the reload the promotion asks for
NextValidate ==
    \/ ValidateStep
    \/ AutoPromoteStep
    \/ LoadStep

SpecValidate == Init /\ [][NextValidate]_vars

\* The life of one EnsembleModel object
NextEnsemble ==
    \/ \E weights \in WeightMappings : EnsembleModel_init(weights)
    \/ build_models
    \/ \E fits \in [SubModelNames -> FittedModels], completed \in 0..Len(SubModels) :
          train(fits, completed)
    \/ \E X \in Batches : ensemble_predict(X)

SpecEnsemble == InitOffline /\ [][NextEnsemble]_vars

\* The life of one FlightDataProcessor object
NextPreprocess ==
    \/ \E config \in PreprocessingConfigs :
          FlightDataProcessor_init(config.scale_numerical, config.scaler)
    \/ \E table \in FitTables : preprocess_fit(table)
    \/ \E table \in InferenceTables : preprocess_transform(table)

SpecPreprocess == InitOffline /\ [][NextPreprocess]_vars

\* The life of one FlightDataProcessor object given tables with missing
\* entries
NextImpute ==
    \/ \E config \in PreprocessingConfigs :
          FlightDataProcessor_init(config.scale_numerical, config.scaler)
    \/ \E table \in ImputeFitTables : preprocess_fit(table)
    \/ \E table \in ImputeBatches : preprocess_transform(table)

SpecImpute == InitOffline /\ [][NextImpute]_vars

\* prepare_datasets on one raw table: construct, engineer, preprocess
NextEngineer ==
    \/ \E config \in PreprocessingConfigs :
          FlightDataProcessor_init(config.scale_numerical, config.scaler)
    \/ \E df \in RawTables : engineer_features(df)
    \/ prepare_datasets_preprocess

SpecEngineer == InitOffline /\ [][NextEngineer]_vars

\* The life of one DriftDetector object
NextDrift ==
    \/ \E reference \in DriftTables : DriftDetector_init(reference)
    \/ \E current \in DriftTables, n_current \in SampleSizes,
          report_path \in ReportPaths, castable \in SUBSET DriftColumns :
          detect_drift(current, n_current, report_path, castable)
    \/ \E n_predictions \in SampleSizes, reference \in DriftTables,
          current \in DriftTables, castable \in SUBSET DriftColumns :
          monitor_production_drift(n_predictions, reference, current, castable)

SpecDrift == InitOffline /\ [][NextDrift]_vars

\* The performance checks of one trained model
NextPerformance ==
    \/ \E y_test \in TruePrices, y_pred \in PredictedPrices,
          thresholds \in HalfThresholds :
          train_model(y_test, y_pred, thresholds)
    \/ validate_logged_metrics
    \/ evaluate
    \/ test_model_performance

SpecPerformance == InitOffline /\ [][NextPerformance]_vars

TypeOK ==
    /\ pc \in {"off", "crashed", "idle", "load_artifact", "load_version",
               "loaded", "load_failed", "swap_info"}
    /\ predict_pc \in {"idle", "predict_log", "predict_respond"}
    /\ nreq \in 0..MaxRequests
    /\ \A a \in AliasNames : aliases[a] \in Versions \cup {NONE}

\* ================================================================== claims
\* The last response is current: no handler has run since it was sent.
Settled == pc = "idle" /\ predict_pc = "idle"

PredictAnswered(status) ==
    Settled /\ resp.endpoint = "/predict" /\ resp.status = status

\* C1: a well-formed POST /predict and GET /model_info answer 503 exactly
\* when no model is loaded (current_model is None); so the well-formed
\* predicts made with no load or reload in between all got the same status.
C1_UnavailableIffNoModel ==
    /\ (Settled /\ resp.endpoint \in {"/predict", "/model_info"} /\ resp.status # 422)
          => (resp.status = 503 <=> current_model = NoModel)
    /\ Cardinality(predict_statuses) <= 1

\* Two predicts in a row were answered 503.
C1_Witness ==
    /\ PredictAnswered(503)
    /\ sent[<<"/predict", 503>>] = 2

\* C2: once a model is loaded the service is never again without one; a
\* reload whose load fails answers 500 and leaves current_model and
\* current_model_info as they were when the request arrived.
C2_ReloadFailureKeepsModel ==
    [][ /\ current_model # NoModel => current_model' # NoModel
        /\ (ctx.kind = "reload" /\ pc = "load_failed" /\ pc' = "idle")
              => /\ resp'.endpoint = "/reload"
                 /\ resp'.status = 500
                 /\ <<current_model', current_model_info'>> = at_entry
        /\ (ctx.kind = "reload" /\ pc \in {"load_artifact", "load_version"})
              => <<current_model', current_model_info'>> = at_entry ]_vars

\* A reload failed while a model was active.
C2_Witness ==
    /\ Settled
    /\ resp.endpoint = "/reload"
    /\ resp.status = 500
    /\ current_model # NoModel

\* C3: a predict never sees the model of one load with the metadata of
\* another, and the model_name / model_version of its log row are those of
\* its response.
C3_AtomicSwap ==
    /\ predict_pc # "idle" =>
          /\ predict_local.model = current_model
          /\ "loaded_at" \in DOMAIN current_model_info
          /\ current_model_info.loaded_at = current_model.load
    /\ (predict_pc = "idle" /\ resp.endpoint = "/predict" /\ resp.status # 422) =>
          /\ resp.status \in {200, 503}
          /\ resp.status = 200 =>
                /\ resp.body.loaded_at = resp.body.model.load
                /\ resp.body.logged =>
                      /\ Len(predictions) > 0
                      /\ predictions[Len(predictions)].model_name = resp.body.model_name
                      /\ predictions[Len(predictions)].model_version = resp.body.model_version

\* A predict answered and logged after a reload replaced the startup model.
C3_Witness ==
    /\ PredictAnswered(200)
    /\ resp.body.logged
    /\ resp.body.model.load >= 2
    /\ sent[<<"/reload", 200>>] = 1

\* C4: GET /health always answers 200, with model_loaded true exactly when a
\* model is loaded, whatever its source; after a successful /reload a model
\* is loaded.
C4_HealthReportsModel ==
    /\ \A s \in {422, 500, 503} : sent[<<"/health", s>>] = 0
    /\ (Settled /\ resp.endpoint = "/health") =>
          /\ resp.status = 200
          /\ resp.body.model_loaded <=> current_model # NoModel
    /\ (Settled /\ resp.endpoint = "/reload" /\ resp.status = 200) =>
          current_model # NoModel

\* /health reported a model that came from the local fallback.
C4_Witness ==
    /\ Settled
    /\ resp.endpoint = "/health"
    /\ resp.body.model_loaded
    /\ current_model.artifact = "local"

\* C5: with a model loaded, a fault at any step of the log write leaves the
\* predict answered 200 with the same price and counted as a success.
C5_LogFailureSwallowed ==
    /\ (predict_pc = "idle" /\ resp.endpoint = "/predict" /\ resp.status \notin {422, 503}) =>
          /\ resp.status = 200
          /\ resp.body.predicted_price = PlaceholderPrice
    /\ predict_pc = "idle" =>
          /\ PREDICTION_COUNT["success"] = sent[<<"/predict", 200>>] + sent[<<"/predict", 500>>]
          /\ REQUEST_COUNT[<<"POST", "/predict", "200">>] = PREDICTION_COUNT["success"]
          /\ sent[<<"/predict", 500>>] = 0

\* A predict was answered 200 although the commit of its log row failed.
C5_Witness ==
    /\ PredictAnswered(200)
    /\ resp.body.db_fault = "commit"
    /\ ~resp.body.logged
    /\ predictions = <<>>

\* C6 as stated: every attempt that reaches the handler increments the
\* prediction counter of its outcome, and every successful one records one
\* value, one latency and appends one row to the prediction log.
C6_EverySuccessLogged ==
    Settled =>
       /\ PREDICTION_COUNT["success"] = sent[<<"/predict", 200>>]
       /\ PREDICTION_COUNT["error"] = sent[<<"/predict", 503>>] + sent[<<"/predict", 500>>]
       /\ PREDICTION_VALUE = sent[<<"/predict", 200>>]
       /\ PREDICTION_LATENCY = sent[<<"/predict", 200>>]
       /\ Len(predictions) = sent[<<"/predict", 200>>]

\* C6: every attempt that reaches the handler increments the prediction
\* counter of its outcome; a successful one records one value and one
\* latency, and appends one row to the prediction log unless the log write
\* fails, in which case it appends none.
C6_CountedAndLoggedUnlessWriteFails ==
    Settled =>
       /\ PREDICTION_COUNT["success"] = sent[<<"/predict", 200>>]
       /\ PREDICTION_COUNT["error"] = sent[<<"/predict", 503>>] + sent[<<"/predict", 500>>]
       /\ PREDICTION_VALUE = sent[<<"/predict", 200>>]
       /\ PREDICTION_LATENCY = sent[<<"/predict", 200>>]
       /\ Len(predictions) + db_failures = sent[<<"/predict", 200>>]
       /\ (resp.endpoint = "/predict" /\ resp.status = 200) =>
             (resp.body.logged <=> resp.body.db_fault \in {"none", "close"})

\* Two predicts succeeded; the log write of one of them failed.
C6_Witness ==
    /\ PredictAnswered(200)
    /\ sent[<<"/predict", 200>>] = 2
    /\ Len(predictions) = 1
    /\ db_failures = 1

\* The model_version the load that made model object m recorded for it
RecordedVersion(m) ==
    CASE m.how = "alias" -> m.resolved
      [] m.how = "version" -> m.artifact
      [] m.how = "latest" -> "latest"
      [] OTHER -> "local"

\* C7 as stated: every 200 response of /predict carries a positive price and
\* the version the alias resolved to when the active model was loaded.
C7_VersionIsAliasResolution ==
    PredictAnswered(200) =>
       /\ resp.body.predicted_price > 0
       /\ current_model.how = "alias"
       /\ resp.body.model_version = current_model.resolved

\* C7: every 200 response of /predict carries a positive price and the
\* model_version recorded by the load of the active model: what
\* get_model_version_by_alias returned for a load by alias, the requested
\* version for a load by version, "latest" for a load with neither, "local"
\* for the local fallback.
C7_VersionIsRecordedAtLoad ==
    PredictAnswered(200) =>
       /\ resp.body.predicted_price > 0
       /\ resp.body.model = current_model
       /\ resp.body.model_version = RecordedVersion(current_model)

\* A predict answered with the version the alias had at load time, after a
\* promotion moved the alias to another version.
C7_Witness ==
    /\ PredictAnswered(200)
    /\ current_model.how = "alias"
    /\ aliases[current_model_info.model_alias] # resp.body.model_version

\* C8: startup first loads the registry model under the configured alias,
\* falls back to the local artifact if that fails, fails exactly when both
\* fail, and otherwise ends with a model loaded.
C8_StartupFallback ==
    [][ /\ (pc = "off" /\ pc' \notin {"off", "idle"}) =>
              /\ pc' = "load_artifact"
              /\ ctx'.alias = MODEL_ALIAS
              /\ ctx'.version = NONE
        /\ (ctx.kind = "startup" /\ pc' # pc) =>
              /\ pc' = "crashed" <=> (pc = "load_failed" /\ ~local_exists)
              /\ pc' = "idle" =>
                    /\ current_model' # NoModel
                    /\ current_model'.artifact = "local" <=> pc = "load_failed"
                    /\ current_model'.artifact # "local" => current_model'.how = "alias"
              /\ pc = "load_failed" => pc' \in {"idle", "crashed"} ]_vars

\* Startup failed although the alias exists: the registry did not answer and
\* there is no local artifact.
C8_Witness ==
    /\ pc = "crashed"
    /\ aliases[MODEL_ALIAS] # NONE
    /\ ~local_exists
    /\ current_model = NoModel

\* C9: promote for a version that is not in the registry exits with code 1,
\* changes no alias and sends no reload notification.
C9_MissingVersionFails ==
    [][ \A p \in Procs :
          (/\ promo[p].pc # "idle"
           /\ promo[p].version \notin Versions
           /\ promo'[p] # promo[p]) =>
             /\ promo[p].pc = "get_version"
             /\ promo'[p].pc = "exited"
             /\ promo'[p].exit = 1
             /\ promo'[p].notify = "none"
             /\ aliases' = aliases
             /\ UNCHANGED <<pc, ctx, nreq>> ]_vars

\* A promotion of version 3 has exited while the other promotion goes on.
C9_Witness ==
    \E p \in Procs :
       /\ promo[p].version = "3"
       /\ promo[p].pc = "exited"
       /\ \E q \in Procs \ {p} : promo[q].pc = "verify"

\* C10: a promotion that goes on after its verification read (to notify the
\* service and report success) read back the version it asked for.
C10_VerificationEnforced ==
    \A p \in Procs :
       promo[p].pc \in {"notify", "await_reload", "done"} =>
          promo[p].alias_version = promo[p].version

\* C11: promotion is idempotent.  Whenever the registry answers the
\* set-alias call of a promotion, the call raises nothing and the registry
\* becomes the old one with the alias on the promoted version: unchanged
\* when the alias was there already, overwritten when it was elsewhere.
C11_PromotionIdempotent ==
    [][ \A p \in Procs :
          (/\ promo[p].pc = "set_alias"
           /\ promo'[p] # promo[p]
           /\ promo'[p].error # "ConnectionError") =>
             /\ promo'[p].pc = "verify"
             /\ promo'[p].exit = Running
             /\ aliases' = [aliases EXCEPT ![promo[p].alias] = promo[p].version]
             /\ (aliases[promo[p].alias] = promo[p].version => aliases' = aliases) ]_vars

\* The same version has been promoted to the same alias twice in a row: the
\* first promotion is complete, the second has set the alias again.
C11_Witness ==
    /\ promo["p1"].pc = "done"
    /\ promo["p2"].pc = "verify"
    /\ promo["p2"].version = promo["p1"].version
    /\ promo["p2"].alias = promo["p1"].alias
    /\ promo["p1"].alias_version = promo["p1"].version
    /\ aliases[promo["p2"].alias] = promo["p2"].version

\* C12: once the reload notification of a promotion has failed (the POST
\* raised or the service answered 500), the promotion has completed with
\* exit code 0 and the alias points to the promoted version.
C12_NotifyFailureKeepsPromotion ==
    \A p \in ServingProcs :
       promo[p].notify = "failed" =>
          /\ promo[p].pc = "done"
          /\ promo[p].exit = 0
          /\ aliases[promo[p].alias] = promo[p].version

\* The service answered the notification of a promotion with 500.
C12_Witness ==
    \E p \in ServingProcs :
       /\ promo[p].notify = "failed"
       /\ promo[p].exit = 0
       /\ Settled
       /\ resp.endpoint = "/reload"
       /\ resp.status = 500
       /\ aliases[promo[p].alias] = promo[p].version

\* C13: when the metrics of the run were read, validate_model returns True
\* exactly when every metric present in the record meets its bound
\* (r2_score >= min_r2, rmse <= max_rmse, mape <= max_mape); an absent
\* metric is skipped, so the record without any of the three passes.
C13_PassIffBoundsMet ==
    (val.returned # <<>> /\ val.error = NONE) =>
       LET m == val.metrics
           t == val.thresholds
       IN  val.returned[1] =
              (/\ "r2_score" \in DOMAIN m => m["r2_score"] >= t["min_r2"]
               /\ "rmse" \in DOMAIN m => m["rmse"] <= t["max_rmse"]
               /\ "mape" \in DOMAIN m => m["mape"] <= t["max_mape"])

\* A record holding the three metrics, each exactly on its bound, passed.
C13_Witness ==
    /\ val.returned = <<TRUE>>
    /\ DOMAIN val.metrics = {"r2_score", "rmse", "mape"}
    /\ val.metrics["r2_score"] = val.thresholds["min_r2"]
    /\ val.metrics["rmse"] = val.thresholds["max_rmse"]
    /\ val.metrics["mape"] = val.thresholds["max_mape"]

\* The metrics of a record that do not meet their bounds
Violated(m, t) ==
    { name \in DOMAIN m : ~CheckPassed(name, m[name], t[ThresholdOf(name)]) }

\* The violated thresholds that a value returned by validate_model names
NamedIn(returned) ==
    IF returned \in BOOLEAN
    THEN {}
    ELSE { name \in DOMAIN returned : ~returned[name].passed }

\* C14 as stated: what validate_model returns to its caller names every
\* violated threshold.
C14_ReturnsFailureReport ==
    (val.returned # <<>> /\ val.error = NONE) =>
       NamedIn(val.returned[1]) = Violated(val.metrics, val.thresholds)

\* C14: every present check is evaluated even after one has failed, and a
\* warning is logged for exactly the violated thresholds; what is returned
\* to the caller is only the overall boolean, True when no threshold is
\* violated.
C14_AllChecksLoggedBooleanReturned ==
    (val.pc \in {"overall", "promoting", "returned", "exited"} /\ val.error = NONE) =>
       /\ DOMAIN val.validation_results = DOMAIN val.metrics
       /\ \A name \in DOMAIN val.metrics :
             val.validation_results[name].passed =
                (name \notin Violated(val.metrics, val.thresholds))
       /\ val.warnings = Violated(val.metrics, val.thresholds)
       /\ val.passed = (val.warnings = {})
       /\ val.returned \in {<<>>, <<val.passed>>}

\* The first and the last check failed and the one between them passed:
\* both failures were logged and False was returned.
C14_Witness ==
    /\ val.returned = <<FALSE>>
    /\ val.error = NONE
    /\ val.warnings = {"r2_score", "mape"}
    /\ DOMAIN val.validation_results = {"r2_score", "rmse", "mape"}

\* Validation passed: the metrics were read and met their bounds.
ValidationPassed == val.error = NONE /\ val.passed

\* C15 as stated: the script exits with code 0 exactly when validation
\* passed, and with code 1 otherwise.
C15_ExitCodeIffPassed ==
    val.pc = "exited" =>
       /\ val.exit \in {0, 1}
       /\ val.exit = 0 <=> ValidationPassed

\* C15: the script exits with code 0 exactly when validation passed and the
\* promotion asked for with --auto-promote did not exit; it exits with code
\* 1 otherwise, and then without validate_model returning when it was the
\* promotion that exited.
C15_ExitCodeIffPassedAndPromoted ==
    val.pc = "exited" =>
       /\ val.exit \in {0, 1}
       /\ val.exit = 0 <=>
             (ValidationPassed /\ (val.auto_promote => promo["p1"].pc = "done"))
       /\ (val.returned = <<>>) <=>
             (ValidationPassed /\ val.auto_promote /\ promo["p1"].pc = "exited")

\* Validation passed with --auto-promote, the promotion moved the alias, the
\* listening service answered the POST of /reload after loading the
\* validated version, and the script ended with code 0.
C15_Witness ==
    /\ val.pc = "exited"
    /\ ValidationPassed
    /\ val.auto_promote
    /\ val.returned = <<TRUE>>
    /\ promo["p1"].pc = "done"
    /\ promo["p1"].notify = "ok"
    /\ pc = "idle"
    /\ current_model_info.model_version = val.version
    /\ val.exit = 0

\* C16: a predict call that returns, returns for every row of X the sum over
\* the three sub-models of weight times the sub-model's prediction, whatever
\* the weights add up to; the classes of models.py and train.py return the
\* same, and a weight changed by d changes the output by d times that
\* sub-model's prediction.
C16_WeightedSumLinear ==
    (ens.result # NoResult /\ ens.result.error = NONE) =>
       LET X == ens.result.X
           m == ens.models
           w == ens.weights
           y == ens.result.value
       IN  /\ DOMAIN y = 1..Len(X)
           /\ \A i \in 1..Len(X) :
                 y[i] = w["random_forest"] * m["random_forest"][X[i]]
                        + w["xgboost"] * m["xgboost"][X[i]]
                        + w["lightgbm"] * m["lightgbm"][X[i]]
           /\ EnsembleModel_predict(m, w, X) = ens.result
           /\ train_EnsembleModel_predict(m, w, X) = ens.result
           /\ \A name \in SubModelNames, d \in {-1, 1} :
                 EnsembleModel_predict(m, [w EXCEPT ![name] = @ + d], X).value
                   = [i \in 1..Len(X) |-> y[i] + d * m[name][X[i]]]

\* A trained ensemble whose weights add up to 3 predicted two rows.
C16_Witness ==
    /\ ens.result.error = NONE
    /\ ens.result.X = <<1, 2>>
    /\ ens.weights = [random_forest |-> 1, xgboost |-> 1, lightgbm |-> 1]
    /\ ens.result.value = <<3, 1>>

\* Some sub-model of the ensemble has not been trained
Untrained(models) ==
    \/ DOMAIN models # SubModelNames
    \/ \E name \in DOMAIN models : models[name] = Unfitted

\* C17 as stated: a predict call made while some sub-model is not trained
\* fails with a ModelNotReady error and returns no prediction array.
C17_UntrainedRaisesModelNotReady ==
    (ens.result # NoResult /\ Untrained(ens.models)) =>
       /\ ens.result.error = "ModelNotReady"
       /\ ens.result.value = <<>>

\* What a value of a column becomes in the returned array
Scaled(col, x) ==
    IF proc.scale_numerical THEN Scale(proc.scaler.params, col, Frac(x, 1))
                            ELSE Frac(x, 1)

\* C18: whatever columns the table passed with fit=False has, the vectors
\* returned have exactly the columns recorded by the fit=True call, in that
\* order, one vector per row; a column the table lacks holds the scaled
\* value of zero.
C18_SchemaOfFit ==
    proc.state = "transformed" =>
       /\ proc.output.error = NONE
       /\ proc.output.columns = proc.feature_names
       /\ DOMAIN proc.output.rows = proc.input.rows
       /\ \A r \in proc.input.rows :
             /\ DOMAIN proc.output.rows[r] = DOMAIN proc.feature_names
             /\ \A j \in DOMAIN proc.feature_names :
                   proc.feature_names[j] \notin Range(proc.input.columns) =>
                      proc.output.rows[r][j] = Scaled(proc.feature_names[j], 0)

\* A processor fitted on airline and duration was given a table without
\* airline, with the column days_left that it never saw, and with duration
\* in second place.
C18_Witness ==
    /\ proc.state = "transformed"
    /\ proc.scale_numerical
    /\ proc.feature_names = <<"airline", "duration">>
    /\ proc.input.columns = <<"days_left", "duration">>
    /\ proc.output.columns = <<"airline", "duration">>

\* C19: with fit=False a value of a categorical column that has an encoder
\* is encoded as its index among the classes seen at fit time, and as -1
\* when it is not among them; the call returns.
C19_UnseenCategoryIsMinusOne ==
    (/\ proc.state = "transformed"
     /\ "airline" \in Range(proc.input.columns)
     /\ "airline" \in DOMAIN proc.label_encoders) =>
        /\ proc.output.error = NONE
        /\ \A r \in proc.input.rows, j \in DOMAIN proc.feature_names :
              proc.feature_names[j] = "airline" =>
                 LET v == proc.input.cat["airline"][r]
                     classes == proc.label_encoders["airline"]
                     code == IF v \in classes
                             THEN Cardinality({ c \in classes : Rank(c) < Rank(v) })
                             ELSE -1
                 IN  proc.output.rows[r][j] = Scaled("airline", code)

\* A processor fitted on Air_India and Indigo without scaling was given a
\* row of Vistara and returned -1 for it.
C19_Witness ==
    /\ proc.state = "transformed"
    /\ ~proc.scale_numerical
    /\ proc.feature_names = <<"airline">>
    /\ proc.label_encoders["airline"] = {"Air_India", "Indigo"}
    /\ proc.input.columns = <<"airline">>
    /\ proc.input.cat["airline"][1] = "Vistara"
    /\ proc.output.rows[1][1] = [num |-> -1, den |-> 1]

\* C20: a detect_drift call on datasets that share no column name raises
\* the no-common-columns ValueError and runs and writes no report; any other
\* call compares exactly the columns present in both datasets.
C20_NoCommonColumnsFails ==
    [][ drift'.calls # drift.calls =>
          LET shared == DOMAIN drift'.reference \cap DOMAIN drift'.current
          IN  IF shared = {}
              THEN /\ drift'.error = "ValueError"
                   /\ drift'.runs = drift.runs
                   /\ drift'.saved = drift.saved
                   /\ drift'.compared = <<>>
              ELSE /\ drift'.error = NONE
                   /\ Range(drift'.compared) = shared
                   /\ Len(drift'.compared) = Cardinality(shared)
                   /\ DOMAIN drift'.reference_aligned = shared
                   /\ DOMAIN drift'.current_aligned = shared
                   /\ drift'.runs = drift.runs + 1
                   /\ drift'.saved = drift.saved + 1 ]_vars

\* After a report on the one shared column, a second call with a dataset
\* that shares no column with the reference failed and left that report
\* the only one.
C20_Witness ==
    /\ drift.calls = 2
    /\ drift.error = "ValueError"
    /\ DOMAIN drift.reference = {"airline"}
    /\ DOMAIN drift.current = {"price"}
    /\ drift.runs = 1
    /\ drift.saved = 1

\* C21 as stated: drift detection on fewer than 100 current records that
\* share columns with the reference surfaces an InsufficientSamples error
\* and writes no report.
C21_InsufficientSamplesRaised ==
    /\ drift.state = "skipped" => drift.error = "InsufficientSamples"
    /\ (/\ drift.calls > 0
        /\ drift.n_current < MinSamples
        /\ CommonColumns(drift.reference, drift.current) # {}) =>
           /\ drift.error = "InsufficientSamples"
           /\ drift.report_path = NONE

\* C22: a POST /predict answered 422 changed nothing but the response:
\* neither the active model and its metadata, nor a prediction counter or
\* histogram, nor the request counter or the gauge, nor the prediction log;
\* and it is answered so with and without a model loaded.
C22_RejectedPredictChangesNothing ==
    [][ sent'[<<"/predict", 422>>] # sent[<<"/predict", 422>>] =>
          /\ resp'.endpoint = "/predict"
          /\ resp'.status = 422
          /\ UNCHANGED <<globalvars, countervars, MODEL_INFO, logvars,
                         predict_statuses, registryvars, pc, predictvars>> ]_vars

\* A body without a required field was rejected while a model was loaded;
\* nothing was counted or logged.
C22_Witness ==
    /\ Settled
    /\ resp.endpoint = "/predict"
    /\ resp.status = 422
    /\ current_model # NoModel
    /\ sent[<<"/predict", 422>>] = 1
    /\ PREDICTION_COUNT = [s \in {"success", "error"} |-> 0]
    /\ predictions = <<>>

\* What a rational entry becomes in the returned array
ScaledEntry(col, x) ==
    IF proc.scale_numerical THEN Scale(proc.scaler.params, col, x) ELSE x

\* C23 as stated: with fit=False a missing entry of a numerical column is
\* returned as the median that the column had in the table of the fit=True
\* call, whatever the other rows of the batch hold.
C23_ImputesFitTimeMedian ==
    proc.state = "transformed" =>
       \A j \in DOMAIN proc.feature_names, r \in proc.input.rows :
          LET col == proc.feature_names[j]
          IN  (/\ col \in DOMAIN proc.input.num
               /\ proc.input.num[col][r] = Missing) =>
                 proc.output.rows[r][j] =
                    ScaledEntry(col, Median(proc.fit_input.num[col]))

\* C24 as stated: a reload given neither alias nor version loads by the
\* alias recorded for the active model, and by 'production' when none is
\* recorded: nothing loaded yet, or a model from the local file or loaded by
\* version.
C24_ReloadDefaultsToProduction ==
    (ctx.kind = "reload" /\ ctx.defaulted) =>
       LET info == at_entry[2]
       IN  /\ ctx.version = NONE
           /\ ctx.alias = IF "model_alias" \in DOMAIN info /\ info.model_alias # NONE
                          THEN info.model_alias
                          ELSE "production"

\* C25 as stated: on the same predictions, true values and max_mape, the
\* MAPE check of evaluate(), of validate_model on the logged metric and of
\* test_model_performance compare the same MAPE value and give the same
\* verdict.
C25_MapeChecksAgree ==
    (/\ perf.evaluate # <<>>
     /\ perf.validate # <<>>
     /\ perf.test # <<>>
     /\ perf.test[1].failed \cap {"r2_score", "rmse"} = {}) =>
        /\ perf.evaluate[1].mape = perf.validate[1].mape
        /\ perf.validate[1].mape = perf.test[1].mape
        /\ ("mape" \in perf.evaluate[1].failed) = ("mape" \in perf.validate[1].failed)
        /\ ("mape" \in perf.validate[1].failed) = ("mape" \in perf.test[1].failed)

\* C26 as stated: whatever promotions run during a load by alias, the
\* model_version recorded for the model that becomes active is the version
\* of the artifact that was loaded.
C26_VersionMatchesArtifact ==
    (current_model.how = "alias" /\ pc = "idle") =>
       /\ current_model.resolved = current_model.artifact
       /\ current_model_info.model_version = current_model.artifact

\* C27: during a run of the validation script the promotion starts, an
\* alias changes or the service is notified (and begins a reload) only with
\* --auto-promote, after
\* the metrics were read and every one present met its threshold; the only
\* alias that changes is 'production', and it goes to the validated version.
C27_PromotesOnlyAfterPass ==
    [][ (\/ aliases' # aliases
         \/ promo' # promo
         \/ (ctx.kind # "reload" /\ ctx'.kind = "reload")) =>
          /\ val.pc \in {"overall", "promoting"}
          /\ val.auto_promote
          /\ val.error = NONE
          /\ val.passed
          /\ Violated(val.metrics, val.thresholds) = {}
          /\ aliases' \in {aliases, [aliases EXCEPT !["production"] = val.version]}
      ]_vars

\* A run with --auto-promote whose three metrics met their bounds moved the
\* production alias from version 1 to the validated version 2 and notified
\* the service, which was serving version 1 and now serves version 2; the
\* script exited with code 0.
C27_Witness ==
    /\ val.pc = "exited"
    /\ val.exit = 0
    /\ val.auto_promote
    /\ DOMAIN val.metrics = {"r2_score", "rmse", "mape"}
    /\ val.version = "2"
    /\ aliases["production"] = "2"
    /\ promo["p1"].notify = "ok"
    /\ \E labels \in MODEL_INFO : labels[2] = "1"
    /\ current_model_info.model_version = "2"

\* The method of an endpoint and the label of a status
MethodOf(endpoint) == IF endpoint \in {"/health", "/model_info"} THEN "GET" ELSE "POST"
StatusLabel(status) ==
    CASE status = 200 -> "200"
      [] status = 422 -> "422"
      [] status = 500 -> "500"
      [] status = 503 -> "503"

\* The value of the request counter for an endpoint and a status; a label
\* combination that was never used reads as 0
RequestCount(endpoint, status) ==
    LET label == <<MethodOf(endpoint), endpoint, StatusLabel(status)>>
    IN  IF label \in DOMAIN REQUEST_COUNT THEN REQUEST_COUNT[label] ELSE 0

\* C28 as stated: between requests, the request counter of every endpoint
\* and status equals the number of requests that its handler answered with
\* that status.
C28_CounterMatchesStatus ==
    Settled =>
       \A endpoint \in {"/health", "/model_info", "/reload", "/predict"},
          status \in {200, 500, 503} :
          RequestCount(endpoint, status) = sent[<<endpoint, status>>]

\* C29: the feature vectors prepare_datasets computes (engineer_features,
\* then preprocess) do not depend on the target: the same raw table with any
\* other prices gives the same feature columns and the same feature vectors.
C29_FeaturesIndependentOfPrice ==
    (proc.state = "fitted" /\ proc.raw # NoTable) =>
        \A price \in [BatchRowIds -> PriceValues] :
            LET other == EngineeredTable([proc.raw EXCEPT !.price = price])
                features == PreprocessFit(proc, other).output
            IN  /\ features.columns = proc.output.columns
                /\ features.rows = proc.output.rows

\* C30: whenever no load or reload is under way and a model is active, the
\* model-info gauge reads 1 for exactly one pair of labels, the name and the
\* version of the active model; the pair of a replaced model no longer
\* reads 1.
C30_GaugeMarksActiveModelOnly ==
    (pc = "idle" /\ current_model_info # EmptyInfo) =>
        MODEL_INFO = {<<current_model_info.model_name,
                        current_model_info.model_version>>}

====
